---- MODULE Spec2Model ----
(***************************************************************************)
(* Model of the code-review backend: the token cipher (encryption.py),     *)
(* the GitLab credential validator (gitlab_validator.py) and the           *)
(* credential store endpoints (llm_service.py, models.py, schemas.py), the  *)
(* merge-request tools (gitlab_tools.py) and the conversation agent        *)
(* (gitlab_agent.py).                                                      *)
(*                                                                         *)
(* Python strings are sequences of symbols, so that rstrip('/'), strip()   *)
(* and truthiness are computed and not assumed.  An Optional[str] holds a   *)
(* string or None; any other Optional holds <<>> (None) or <<value>>.      *)
(* Timestamps (created_at, updated_at) are not modelled.                   *)
(***************************************************************************)
EXTENDS Integers, Sequences, FiniteSets, TLC

VARIABLES
    ENCRYPTION_KEY,     \* os.getenv("ENCRYPTION_KEY") of the running process
    generated,          \* number of keys Fernet.generate_key has made so far
    gitlab_configs,     \* rows of the gitlab_configs table
    next_id,            \* number of primary keys handed out so far
    request,            \* the endpoint call being served, if any
    response,           \* its answer, once the handler has run
    validation_result,  \* the handler's local validation_result
    stored_token,       \* cipher life cycle: a ciphertext at rest
    decrypted,          \* cipher life cycle: outcome of the last decrypt_token
    checked,            \* validator: arguments and network of the last call
    verdict,            \* validator: what that call returned or raised
    current_gitlab_config,  \* gitlab_tools._current_gitlab_config
    tool,               \* tools: a direct call of a tool and what it returned
    agents,             \* the GitLabAgent object of each conversation
    tasks               \* the coroutine each conversation is running, if any

gitlab_vars == <<current_gitlab_config, tool, agents, tasks>>

vars == <<ENCRYPTION_KEY, generated, gitlab_configs, next_id, request, response, validation_result,
          stored_token, decrypted, checked, verdict, gitlab_vars>>

\* None where a str is expected: a one-symbol sequence no string equals
None == <<"<None>">>
\* None and a present value where another type is expected
Nothing == <<>>
Some(x) == <<x>>

----------------------------------------------------------------------------
(* Bounds                                                                   *)

\* primary keys the store hands out (uuid4 values, never reused)
MaxConfigs == 2
\* distinct values of each 16-byte half of a key that an operator sets
NumHalves == 2
\* keys that Fernet.generate_key makes
MaxGenerated == 3

Halves == 1..NumHalves
ConfigIds == 1..MaxConfigs
Users == {"u1", "u2"}

----------------------------------------------------------------------------
(* Python string helpers                                                    *)

RECURSIVE rstrip(_, _)
\* str.rstrip(chars) for a one-symbol chars
rstrip(s, ch) ==
    IF s # <<>> /\ s[Len(s)] = ch THEN rstrip(SubSeq(s, 1, Len(s) - 1), ch) ELSE s

RECURSIVE lstrip(_, _)
lstrip(s, ch) ==
    IF s # <<>> /\ s[1] = ch THEN lstrip(Tail(s), ch) ELSE s

\* str.strip(): whitespace removed at both ends
strip(s) == lstrip(rstrip(s, " "), " ")

\* truth value of a str or None
Truthy(s) == s # None /\ s # <<>>

----------------------------------------------------------------------------
(* Token cipher: encryption.py                                              *)

\* A key text is what ENCRYPTION_KEY or get_encryption_key holds.  A text of
\* kind "b64" is a urlsafe-base64 text of 32 bytes: sign and enc are the two
\* 16-byte halves it encodes and spare the two bits of its last symbol that
\* encode nothing.  A text of kind "phrase" is any other non-empty string.
B64Text(sign, enc, spare) ==
    [kind |-> "b64", sign |-> sign, enc |-> enc, spare |-> spare, phrase |-> 0]
Phrase(n) ==
    [kind |-> "phrase", sign |-> 0, enc |-> 0, spare |-> 0, phrase |-> n]
Unset == [kind |-> "unset", sign |-> 0, enc |-> 0, spare |-> 0, phrase |-> 0]

RawKeys == {B64Text(s, e, p) : s \in Halves, e \in Halves, p \in {0, 1}}
Passphrases == {Phrase(n) : n \in Halves}
KeySettings == {Unset} \cup RawKeys \cup Passphrases

\* Fernet.generate_key(): urlsafe_b64encode(os.urandom(32)); rnd is what
\* os.urandom draws
generate_key(rnd) == B64Text(rnd[1], rnd[2], 0)

\* os.urandom(32): 256 random bits repeat no earlier key and no key that an
\* operator has set, so the n-th draw is a pair of halves outside Halves
\* that no other draw holds
Draw(n) == <<NumHalves + n, NumHalves + n>>
NextDraw == Draw(generated + 1)
\* the keys one call of get_encryption_key generates
Drawn(env) == IF env.kind = "unset" THEN 1 ELSE 0

\* base64.urlsafe_b64decode inside Fernet(key): the spare bits are dropped
urlsafe_b64decode(text) == [sign |-> text.sign, enc |-> text.enc]

\* Fernet(key) accepts exactly the texts that decode to 32 bytes
IsFernetKey(text) == text.kind = "b64"

\* PBKDF2HMAC(SHA256, 32, b"code-review-salt", 100000).derive, then
\* urlsafe_b64encode: a fixed function of the passphrase
kdf_derive(text) == B64Text(text.phrase, text.phrase, 0)

\* get_encryption_key(): the resolved key text
get_encryption_key(env, rnd) ==
    IF env.kind = "unset" THEN generate_key(rnd)
    ELSE IF IsFernetKey(env) THEN env
    ELSE kdf_derive(env)

\* A call either returns a value or raises: raised names the exception
Returned(v) == [raised |-> "", value |-> Some(v)]
Raised(exc) == [raised |-> exc, value |-> Nothing]
ValueOf(outcome) == outcome.value[1]

\* bytes: the text they spell when they are well-formed UTF-8
Bytes(text, wellformed) == [text |-> text, utf8 |-> wellformed]

\* str.encode()
encode(s) == Bytes(s, TRUE)

\* bytes.decode()
decode(b) == IF b.utf8 THEN Returned(b.text) ELSE Raised("UnicodeDecodeError")

\* Fernet.encrypt: AES-CBC under the enc half, then HMAC under the sign half
FernetEncrypt(key, data) ==
    [hmac_key |-> key.sign, aes_key |-> key.enc, data |-> data]

\* (mutant) Fernet.decrypt without the verification of the HMAC
FernetDecryptUnverified(key, token, luck) ==
    IF token.aes_key = key.enc THEN Returned(token.data)
    ELSE IF luck = "bad_padding" THEN Raised("InvalidToken")
    ELSE Returned(Bytes(<<"<garbage>">>, luck = "garbage_utf8"))

\* Fernet.decrypt: the HMAC is verified first, then the AES-CBC plaintext is
\* unpadded.  Under a wrong enc half the unpadding fails or leaves other
\* bytes; which of them depends on the bytes and is the choice luck.
WrongKeyLuck == {"bad_padding", "garbage_not_utf8", "garbage_utf8"}
FernetDecrypt(key, token, luck) ==
    IF token.hmac_key # key.sign THEN Raised("InvalidToken")
    ELSE IF token.aes_key = key.enc THEN Returned(token.data)
    ELSE IF luck = "bad_padding" THEN Raised("InvalidToken")
    ELSE Returned(Bytes(<<"<garbage>">>, luck = "garbage_utf8"))

\* encrypt_token(token) in a process whose environment is env
encrypt_token(token, env, rnd) ==
    FernetEncrypt(urlsafe_b64decode(get_encryption_key(env, rnd)), encode(token))

\* decrypt_token(encrypted_token) in a process whose environment is env
decrypt_token(encrypted_token, env, rnd, luck) ==
    LET key == get_encryption_key(env, rnd)
        decrypted_bytes == FernetDecrypt(urlsafe_b64decode(key), encrypted_token, luck)
    IN  IF decrypted_bytes.raised # "" THEN decrypted_bytes
        ELSE decode(ValueOf(decrypted_bytes))

----------------------------------------------------------------------------
(* Credential validation: gitlab_validator.py                               *)

\* GitLabValidationResult
GitLabValidationResult(is_valid, error_message, error_code, gitlab_username) ==
    [is_valid |-> is_valid, error_message |-> error_message,
     error_code |-> error_code, gitlab_username |-> gitlab_username]

\* A URL is a sequence of symbols: a scheme, a host and "/" symbols.
\* HttpUrl(url) accepts an http or https scheme followed by a host.
Schemes == {"http://", "https://"}
HttpUrlValid(url) ==
    /\ Len(url) >= 2
    /\ url[1] \in Schemes
    /\ url[2] \notin Schemes \cup {"/"}

\* What the network does with the one GET /api/v4/user: an answer with a
\* status and a body, or an exception out of client.get
Statuses == {200, 201, 204, 302, 400, 401, 403, 404, 429, 500, 503}
Bodies == {"user", "no_username", "not_json", "json_list"}
Failures == {"ConnectTimeout", "ReadTimeout", "ConnectError", "ReadError",
             "RemoteProtocolError", "TooManyRedirects", "RuntimeError"}
Answer(status, body) == [kind |-> "answer", status |-> status, body |-> body]
Failure(exc) == [kind |-> exc, status |-> 0, body |-> "not_json"]
Networks ==
    {Answer(st, b) : st \in Statuses, b \in Bodies} \cup {Failure(e) : e \in Failures}

\* (mutant) except httpx.ConnectTimeout in place of httpx.TimeoutException
IsTimeoutExceptionConnectOnly(exc) == exc = "ConnectTimeout"

\* (mutant) a last clause except httpx.HTTPError in place of except Exception
IsExceptionHttpxOnly(exc) == exc \in Failures \ {"RuntimeError"}

\* the exception classes the except clauses name
IsTimeoutException(exc) == exc \in {"ConnectTimeout", "ReadTimeout"}
IsNetworkError(exc) == exc \in {"ConnectError", "ReadError"}
IsException(exc) ==
    exc \in Failures \cup {"JSONDecodeError", "AttributeError", "UnicodeDecodeError",
                          "InvalidToken", "HTTPStatusError", "TypeError", "KeyError"}

\* response.json() then data.get('username', 'unknown')
json_username(body) ==
    IF body = "user" THEN Returned(<<"alice">>)
    ELSE IF body = "no_username" THEN Returned(<<"unknown">>)
    ELSE IF body = "not_json" THEN Raised("JSONDecodeError")
    ELSE Raised("AttributeError")

\* the body of the try block: client.get and the chain over status_code
identity_request(net) ==
    IF net.kind # "answer" THEN Raised(net.kind)
    ELSE IF net.status = 200 THEN
        IF json_username(net.body).raised # "" THEN json_username(net.body)
        ELSE Returned(GitLabValidationResult(TRUE, None, None, ValueOf(json_username(net.body))))
    ELSE IF net.status = 401 THEN
        Returned(GitLabValidationResult(FALSE,
            <<"Invalid access token or token expired">>, <<"invalid_token">>, None))
    ELSE IF net.status = 403 THEN
        Returned(GitLabValidationResult(FALSE,
            <<"Token lacks required permissions">>, <<"insufficient_permissions">>, None))
    ELSE IF net.status = 404 THEN
        Returned(GitLabValidationResult(FALSE,
            <<"GitLab API endpoint not found - check URL">>, <<"not_found">>, None))
    ELSE
        Returned(GitLabValidationResult(FALSE,
            <<"GitLab API error: ", net.status>>, <<"api_error">>, None))

\* the except clauses, in their order
handle_exception(attempt) ==
    IF attempt.raised = "" THEN attempt
    ELSE IF IsTimeoutException(attempt.raised) THEN
        Returned(GitLabValidationResult(FALSE,
            <<"Connection timeout - GitLab instance unreachable">>, <<"timeout">>, None))
    ELSE IF IsNetworkError(attempt.raised) THEN
        Returned(GitLabValidationResult(FALSE,
            <<"Network error - could not reach GitLab instance">>, <<"network_error">>, None))
    ELSE IF IsException(attempt.raised) THEN
        Returned(GitLabValidationResult(FALSE,
            <<"Unexpected error during validation">>, <<"unknown_error">>, None))
    ELSE attempt

\* (mutant) the GET is sent before the URL is validated
validate_gitlab_credentials_request_first(gitlab_url, access_token, net) ==
    LET url == rstrip(gitlab_url, "/")
        api_url == url \o <<"/api/v4/user">>
        outcome == handle_exception(identity_request(net))
    IN  IF ~HttpUrlValid(url) THEN
            [raised |-> "", requested |-> Some([url |-> api_url, token |-> access_token]),
             value |-> Some(GitLabValidationResult(FALSE,
                           <<"Invalid GitLab URL format">>, <<"invalid_url">>, None))]
        ELSE
            [raised |-> outcome.raised, value |-> outcome.value,
             requested |-> Some([url |-> api_url, token |-> access_token])]

\* validate_gitlab_credentials(gitlab_url, access_token) when the network
\* behaves as net: raised and value are the outcome, requested the GET that
\* was issued, if any
validate_gitlab_credentials(gitlab_url, access_token, net) ==
    LET url == rstrip(gitlab_url, "/")
        api_url == url \o <<"/api/v4/user">>
        outcome == handle_exception(identity_request(net))
    IN  IF ~HttpUrlValid(url) THEN
            [raised |-> "", requested |-> Nothing,
             value |-> Some(GitLabValidationResult(FALSE,
                           <<"Invalid GitLab URL format">>, <<"invalid_url">>, None))]
        ELSE
            [raised |-> outcome.raised, value |-> outcome.value,
             requested |-> Some([url |-> api_url, token |-> access_token])]

----------------------------------------------------------------------------
(* Credential store: models.py, schemas.py, llm_service.py                  *)

\* models.GitLabConfig: one row of gitlab_configs
GitLabConfig(id, user_id, config_name, gitlab_url, access_token_encrypted, project_id, is_active) ==
    [id |-> id, user_id |-> user_id, config_name |-> config_name,
     gitlab_url |-> gitlab_url, access_token_encrypted |-> access_token_encrypted,
     project_id |-> project_id, is_active |-> is_active]

\* schemas.GitLabConfigCreate
GitLabConfigCreate(config_name, gitlab_url, access_token, project_id) ==
    [config_name |-> config_name, gitlab_url |-> gitlab_url,
     access_token |-> access_token, project_id |-> project_id]

\* schemas.GitLabConfigUpdate: every field is optional
GitLabConfigUpdate(config_name, gitlab_url, access_token, project_id, is_active) ==
    [config_name |-> config_name, gitlab_url |-> gitlab_url,
     access_token |-> access_token, project_id |-> project_id,
     is_active |-> is_active]

\* schemas.GitLabConfigResponse: the stored token is not part of it
GitLabConfigResponse(config, validation_message, validation_error_code, gitlab_username) ==
    [id |-> config.id, config_name |-> config.config_name,
     gitlab_url |-> config.gitlab_url, project_id |-> config.project_id,
     is_active |-> config.is_active, validation_message |-> validation_message,
     validation_error_code |-> validation_error_code,
     gitlab_username |-> gitlab_username]

\* the response_dict of create and update: validation_result.error_message or
\* "Credentials validated successfully"
WithValidation(config, result) ==
    GitLabConfigResponse(config,
        IF Truthy(result.error_message) THEN result.error_message
        ELSE <<"Credentials validated successfully">>,
        result.error_code, result.gitlab_username)

\* "return config": the validation fields keep their default
Plain(config) == GitLabConfigResponse(config, None, None, None)

\* an answer of an endpoint, and an HTTPException turned into one
Reply(op, status, body) == [op |-> op, status |-> status, detail |-> None, body |-> body]
HTTPException(op, status, detail) ==
    [op |-> op, status |-> status, detail |-> detail, body |-> {}]

\* (mutant) the filter without the user_id of the caller
OwnedByIdAnyUser(configs, config_id, current_user) ==
    {c \in configs : c.id = config_id}

\* db.query(GitLabConfig).filter(id == config_id, user_id == current_user.id)
OwnedById(configs, config_id, current_user) ==
    {c \in configs : c.id = config_id /\ c.user_id = current_user}

\* (mutant) the duplicate check over the active rows only
OwnedByUrlActiveOnly(configs, current_user, gitlab_url) ==
    {c \in configs : c.user_id = current_user /\ c.gitlab_url = gitlab_url /\ c.is_active}

\* db.query(GitLabConfig).filter(user_id == current_user.id, gitlab_url == url)
OwnedByUrl(configs, current_user, gitlab_url) ==
    {c \in configs : c.user_id = current_user /\ c.gitlab_url = gitlab_url}

\* values the requests are drawn from
\* (config_name and project_id bear on nothing that is checked of the store:
\* the requests leave them out, which keeps the store's state space small)
Names == {}
Projects == {}
Urls == {<<"https://", "a">>, <<"https://", "b">>}
Tokens == {<<>>, <<" ">>, <<"glpat">>}
StoreNetworks == {Answer(200, "user"), Answer(401, "not_json"), Failure("ReadTimeout")}
\* the store runs under a key that is set: its handlers generate none
StoreKeySettings == {Phrase(1)}

\* the networks a request can meet: none when it issues no validation
NetworksFor(validates) == IF validates THEN StoreNetworks ELSE {Failure("RuntimeError")}

CreateRequests ==
    {GitLabConfigCreate(n, u, t, p) :
        n \in Names \cup {None}, u \in Urls, t \in Tokens, p \in Projects \cup {None}}
UpdateRequests ==
    {GitLabConfigUpdate(n, u, t, p, a) :
        n \in Names \cup {None}, u \in Urls \cup {None}, t \in Tokens \cup {None},
        p \in Projects \cup {None}, a \in {Nothing, Some(TRUE), Some(FALSE)}}

\* (mutant) the row with the column's default is_active
NewConfigDefaultActive(id, current_user, config_data, encrypted_token, result) ==
    GitLabConfig(id, current_user, config_data.config_name, config_data.gitlab_url,
                 encrypted_token, config_data.project_id, TRUE)

\* the row create_gitlab_config adds: is_active is the validation's is_valid
NewConfig(id, current_user, config_data, encrypted_token, result) ==
    GitLabConfig(id, current_user, config_data.config_name, config_data.gitlab_url,
                 encrypted_token, config_data.project_id, result.is_valid)

\* POST /api/gitlab/config
create_gitlab_config(current_user, config_data, net, rnd) ==
    LET existing_config ==
            OwnedByUrl(gitlab_configs, current_user, config_data.gitlab_url)
        validation ==
            validate_gitlab_credentials(config_data.gitlab_url,
                                        config_data.access_token, net)
        encrypted_token == encrypt_token(config_data.access_token, ENCRYPTION_KEY, rnd)
        new_config ==
            NewConfig(next_id + 1, current_user, config_data, encrypted_token,
                      ValueOf(validation))
    IN  IF existing_config # {} THEN
            /\ response' = HTTPException("create", 400,
                               <<"GitLab configuration for this URL already exists">>)
            /\ validation_result' = Nothing
            /\ UNCHANGED <<gitlab_configs, next_id>>
        ELSE IF validation.raised # "" THEN
            /\ response' = HTTPException("create", 500, <<validation.raised>>)
            /\ validation_result' = Nothing
            /\ UNCHANGED <<gitlab_configs, next_id>>
        ELSE
            /\ next_id < MaxConfigs
            /\ gitlab_configs' = gitlab_configs \cup {new_config}
            /\ next_id' = next_id + 1
            /\ validation_result' = validation.value
            /\ response' = Reply("create", 201,
                               {WithValidation(new_config, ValueOf(validation))})

\* GET /api/gitlab/configs
get_gitlab_configs(current_user) ==
    /\ response' = Reply("list", 200,
           {Plain(c) : c \in {d \in gitlab_configs : d.user_id = current_user}})
    /\ validation_result' = Nothing
    /\ UNCHANGED <<gitlab_configs, next_id>>

\* GET /api/gitlab/config/{config_id}
get_gitlab_config(config_id, current_user) ==
    LET config == OwnedById(gitlab_configs, config_id, current_user)
    IN  /\ response' =
               IF config = {} THEN
                   HTTPException("get", 404, <<"GitLab configuration not found">>)
               ELSE Reply("get", 200, {Plain(c) : c \in config})
        /\ validation_result' = Nothing
        /\ UNCHANGED <<gitlab_configs, next_id>>

\* (mutant) the token branch without the strip()
TokenIsUpdatedUnstripped(config_update) ==
    config_update.access_token # None /\ Truthy(config_update.access_token)

\* whether update_gitlab_config takes the token branch: the token is given
\* and is not blank
TokenIsUpdated(config_update) ==
    config_update.access_token # None /\ Truthy(strip(config_update.access_token))

\* whether update_gitlab_config takes the is_active given in the request
ManualToggle(config_update) ==
    config_update.is_active # Nothing /\ config_update.access_token = None

\* the row as update_gitlab_config leaves it
UpdatedConfig(config, config_update, validation, encrypted_token) ==
    GitLabConfig(
        config.id,
        config.user_id,
        IF config_update.config_name # None THEN config_update.config_name
        ELSE config.config_name,
        IF config_update.gitlab_url # None THEN config_update.gitlab_url
        ELSE config.gitlab_url,
        IF TokenIsUpdated(config_update) THEN encrypted_token
        ELSE config.access_token_encrypted,
        IF config_update.project_id # None THEN config_update.project_id
        ELSE config.project_id,
        IF ManualToggle(config_update) THEN config_update.is_active[1]
        ELSE IF TokenIsUpdated(config_update) THEN ValueOf(validation).is_valid
        ELSE config.is_active)

\* PUT /api/gitlab/config/{config_id}
update_gitlab_config(config_id, config_update, current_user, net, rnd) ==
    LET found == OwnedById(gitlab_configs, config_id, current_user)
        config == CHOOSE c \in found : TRUE
        validation ==
            validate_gitlab_credentials(
                IF Truthy(config_update.gitlab_url) THEN config_update.gitlab_url
                ELSE config.gitlab_url,
                config_update.access_token, net)
        encrypted_token == encrypt_token(config_update.access_token, ENCRYPTION_KEY, rnd)
        updated == UpdatedConfig(config, config_update, validation, encrypted_token)
    IN  IF found = {} THEN
            /\ response' = HTTPException("update", 404, <<"GitLab configuration not found">>)
            /\ validation_result' = Nothing
            /\ UNCHANGED <<gitlab_configs, next_id>>
        ELSE IF TokenIsUpdated(config_update) /\ validation.raised # "" THEN
            /\ response' = HTTPException("update", 500, <<validation.raised>>)
            /\ validation_result' = Nothing
            /\ UNCHANGED <<gitlab_configs, next_id>>
        ELSE
            /\ gitlab_configs' = (gitlab_configs \ found) \cup {updated}
            /\ validation_result' =
                   IF TokenIsUpdated(config_update) THEN validation.value ELSE Nothing
            /\ response' = Reply("update", 200,
                   {IF TokenIsUpdated(config_update)
                    THEN WithValidation(updated, ValueOf(validation))
                    ELSE Plain(updated)})
            /\ UNCHANGED next_id

\* DELETE /api/gitlab/config/{config_id}
delete_gitlab_config(config_id, current_user) ==
    LET config == OwnedById(gitlab_configs, config_id, current_user)
    IN  /\ IF config = {} THEN
               /\ response' = HTTPException("delete", 404,
                                  <<"GitLab configuration not found">>)
               /\ UNCHANGED gitlab_configs
           ELSE
               /\ response' = Reply("delete", 204, {})
               /\ gitlab_configs' = gitlab_configs \ config
        /\ validation_result' = Nothing
        /\ UNCHANGED next_id

\* an endpoint call: who calls, which endpoint, the path's id and the body
Call(op, current_user, config_id, data) ==
    [op |-> op, current_user |-> current_user, config_id |-> config_id, data |-> data]
NoData == GitLabConfigUpdate(None, None, None, None, Nothing)
NoRequest == Call("none", "nobody", 0, NoData)
NoReply == [op |-> "none", status |-> 0, detail |-> None, body |-> {}]

Requests ==
    {Call("create", u, 0, d) : u \in Users, d \in CreateRequests}
    \cup {Call("update", u, id, d) : u \in Users, id \in ConfigIds, d \in UpdateRequests}
    \cup {Call(op, u, id, NoData) : op \in {"get", "delete"}, u \in Users, id \in ConfigIds}
    \cup {Call("list", u, 0, NoData) : u \in Users}

Pending(op) == request.op = op /\ response = NoReply

\* no tool and no agent runs
InitGitLab ==
    /\ current_gitlab_config = Nothing
    /\ tool = Nothing
    /\ agents = <<>>
    /\ tasks = <<>>

StoreIdle ==
    UNCHANGED <<ENCRYPTION_KEY, generated, request, stored_token, decrypted, checked,
                verdict, gitlab_vars>>

\* a call arrives; a create that would need a primary key beyond the bound
\* is not taken
Receive ==
    /\ request = NoRequest
    /\ \E r \in Requests :
        /\ r.op = "create" =>
               \/ next_id < MaxConfigs
               \/ OwnedByUrl(gitlab_configs, r.current_user, r.data.gitlab_url) # {}
        /\ request' = r
    /\ UNCHANGED <<ENCRYPTION_KEY, generated, gitlab_configs, next_id, response,
                   validation_result, stored_token, decrypted, checked, verdict,
                   gitlab_vars>>

Create ==
    /\ Pending("create")
    /\ \E net \in NetworksFor(OwnedByUrl(gitlab_configs, request.current_user,
                                         request.data.gitlab_url) = {}) :
            create_gitlab_config(request.current_user, request.data, net, NextDraw)
    /\ StoreIdle

List ==
    /\ Pending("list")
    /\ get_gitlab_configs(request.current_user)
    /\ StoreIdle

Get ==
    /\ Pending("get")
    /\ get_gitlab_config(request.config_id, request.current_user)
    /\ StoreIdle

Update ==
    /\ Pending("update")
    /\ \E net \in NetworksFor(
              /\ OwnedById(gitlab_configs, request.config_id, request.current_user) # {}
              /\ TokenIsUpdated(request.data)) :
            update_gitlab_config(request.config_id, request.data,
                                 request.current_user, net, NextDraw)
    /\ StoreIdle

Delete ==
    /\ Pending("delete")
    /\ delete_gitlab_config(request.config_id, request.current_user)
    /\ StoreIdle

\* the answer is sent; the handler's locals are gone
Respond ==
    /\ response # NoReply
    /\ request' = NoRequest
    /\ response' = NoReply
    /\ validation_result' = Nothing
    /\ UNCHANGED <<ENCRYPTION_KEY, generated, gitlab_configs, next_id, stored_token,
                   decrypted, checked, verdict, gitlab_vars>>

Init ==
    /\ ENCRYPTION_KEY \in StoreKeySettings
    /\ generated = 0
    /\ gitlab_configs = {}
    /\ next_id = 0
    /\ request = NoRequest
    /\ response = NoReply
    /\ validation_result = Nothing
    /\ stored_token = Nothing
    /\ decrypted = Nothing
    /\ checked = Nothing
    /\ verdict = Nothing
    /\ InitGitLab

Next == Receive \/ Create \/ List \/ Get \/ Update \/ Delete \/ Respond

Spec == Init /\ [][Next]_vars

----------------------------------------------------------------------------
(* Properties of the credential store, checked under Spec                   *)

\* the step in which the handler of the pending call runs
Handled(op) == request.op = op /\ response = NoReply /\ response' # NoReply

HasUrl(configs, user, url) ==
    \E c \in configs : c.user_id = user /\ c.gitlab_url = url
Owns(configs, user, id) ==
    \E c \in configs : c.user_id = user /\ c.id = id
RowOf(configs, id) == CHOOSE c \in configs : c.id = id
NotFound(op) == HTTPException(op, 404, <<"GitLab configuration not found">>)
\* the stored bytes decrypt to the token in this process
DecryptsTo(encrypted, token) ==
    \A luck \in WrongKeyLuck :
        decrypt_token(encrypted, ENCRYPTION_KEY, NextDraw, luck) = Returned(token)

\* C1: in every reachable state no user owns two stored credentials with the
\* same gitlab_url.
C1_UniqueUrlPerUser ==
    \A c \in gitlab_configs, d \in gitlab_configs :
        (c.user_id = d.user_id /\ c.gitlab_url = d.gitlab_url) => c.id = d.id

C3_CreatePersistsWhateverValidation ==
    [][(/\ Handled("create")
        /\ ~HasUrl(gitlab_configs, request.current_user, request.data.gitlab_url))
       => /\ response'.status = 201
          /\ validation_result' # Nothing
          /\ \E c \in gitlab_configs' :
               /\ c \notin gitlab_configs
               /\ gitlab_configs' = gitlab_configs \cup {c}
               /\ c.user_id = request.current_user
               /\ c.gitlab_url = request.data.gitlab_url
               /\ DecryptsTo(c.access_token_encrypted, request.data.access_token)
               /\ c.is_active = validation_result'[1].is_valid
               /\ \E r \in response'.body :
                    /\ r.id = c.id
                    /\ r.is_active = c.is_active
                    /\ r.validation_error_code = validation_result'[1].error_code
                    /\ ~c.is_active => r.validation_error_code # None]_vars

C3_Witness ==
    /\ request.op = "create"
    /\ response.status = 201
    /\ validation_result # Nothing
    /\ ~validation_result[1].is_valid
    /\ \E r \in response.body :
         /\ r.validation_error_code # None
         /\ \E c \in gitlab_configs :
              /\ c.id = r.id
              /\ ~c.is_active
              /\ DecryptsTo(c.access_token_encrypted, request.data.access_token)

\* C4 as claimed: an update of an own row validates and replaces the stored
\* token exactly when the request carries a token other than the empty string.
C4_ValidatesIffTokenNonEmpty ==
    [][(/\ Handled("update")
        /\ Owns(gitlab_configs, request.current_user, request.config_id))
       => ((request.data.access_token \notin {None, <<>>})
               <=> validation_result' # Nothing)]_vars

\* C4 as amended: an update of an own row validates, and replaces the stored
\* token by an encryption of the submitted one, exactly when the request
\* carries a token that is not empty once surrounding whitespace is removed;
\* otherwise no validation is made and the stored token is left as it was.
C4_ValidatesIffTokenNotBlank ==
    [][(/\ Handled("update")
        /\ Owns(gitlab_configs, request.current_user, request.config_id))
       => IF /\ request.data.access_token # None
             /\ strip(request.data.access_token) # <<>>
          THEN /\ validation_result' # Nothing
               /\ DecryptsTo(
                      RowOf(gitlab_configs', request.config_id).access_token_encrypted,
                      request.data.access_token)
          ELSE /\ validation_result' = Nothing
               /\ RowOf(gitlab_configs', request.config_id).access_token_encrypted =
                      RowOf(gitlab_configs, request.config_id).access_token_encrypted]_vars

\* an update whose token is only whitespace was served without a validation
C4_Witness ==
    /\ request.op = "update"
    /\ request.data.access_token = <<" ">>
    /\ response.status = 200
    /\ validation_result = Nothing

\* C5: after an update of an own row, is_active is the validation's is_valid
\* when the request carried a token that is not blank; it is the is_active of
\* the request when one is given and the token is omitted or the empty
\* string; it is unchanged otherwise.
C5_ActiveAfterUpdate ==
    [][(/\ Handled("update")
        /\ Owns(gitlab_configs, request.current_user, request.config_id)
        /\ \/ request.data.access_token \in {None, <<>>}
           \/ strip(request.data.access_token) # <<>>)
       => RowOf(gitlab_configs', request.config_id).is_active =
            IF request.data.access_token \notin {None, <<>>} THEN
                validation_result' # Nothing /\ validation_result'[1].is_valid
            ELSE IF request.data.is_active # Nothing THEN request.data.is_active[1]
            ELSE RowOf(gitlab_configs, request.config_id).is_active]_vars

\* C6: a get, update or delete by a user for an id that another user owns is
\* answered exactly as one for an id that is not stored (not found), changes
\* no row and makes no validation; a listing holds rows of the caller only.
C6_ForeignIsNotFound ==
    [][/\ \A op \in {"get", "update", "delete"} :
            (/\ Handled(op)
             /\ ~Owns(gitlab_configs, request.current_user, request.config_id))
            => /\ response' = NotFound(op)
               /\ gitlab_configs' = gitlab_configs
               /\ validation_result' = Nothing
       /\ Handled("list") =>
            /\ gitlab_configs' = gitlab_configs
            /\ \A r \in response'.body :
                   Owns(gitlab_configs, request.current_user, r.id)]_vars

\* a not-found answer to a call for a row that another user owns
C6_Witness ==
    /\ request.op \in {"get", "update", "delete"}
    /\ response = NotFound(request.op)
    /\ \E c \in gitlab_configs :
         c.id = request.config_id /\ c.user_id # request.current_user

----------------------------------------------------------------------------
(* The validator on its own: SpecValidator applies it to every URL, token   *)
(* and behaviour of the network                                             *)

ValidatorUrls ==
    {<<"https://", "a">>, <<"https://", "a", "/">>, <<"http://", "b", "/", "/">>,
     <<"gitlab">>, <<"/">>, <<>>}

Validate ==
    /\ \E url \in ValidatorUrls, token \in Tokens, net \in Networks :
        /\ checked' = Some([gitlab_url |-> url, access_token |-> token, net |-> net])
        /\ verdict' = Some(validate_gitlab_credentials(url, token, net))
    /\ UNCHANGED <<ENCRYPTION_KEY, generated, gitlab_configs, next_id, request,
                   response, validation_result, stored_token, decrypted, gitlab_vars>>

NextValidator == Validate

SpecValidator == Init /\ [][NextValidator]_vars

\* the call of the last Validate, what it returned and whether it sent the GET
Net == checked[1].net
Result == ValueOf(verdict[1])
Requested == verdict # Nothing /\ verdict[1].requested # Nothing
Is(code, is_valid, username) ==
    /\ verdict[1].raised = ""
    /\ Result.is_valid = is_valid
    /\ Result.error_code = code
    /\ Result.gitlab_username = username

ErrorCodes ==
    {<<"invalid_url">>, <<"invalid_token">>, <<"insufficient_permissions">>,
     <<"not_found">>, <<"api_error">>, <<"timeout">>, <<"network_error">>,
     <<"unknown_error">>}

\* C10: whatever the URL, the token and the network do, the call raises
\* nothing and returns a result whose error_code is null when is_valid and
\* one of the eight codes when not.
C10_NeverRaises ==
    verdict # Nothing =>
        /\ verdict[1].raised = ""
        /\ verdict[1].value # Nothing
        /\ Result.is_valid => Result.error_code = None
        /\ ~Result.is_valid => Result.error_code \in ErrorCodes

\* an exception that no except clause names was mapped to unknown_error
C10_Witness ==
    /\ Requested
    /\ Net.kind = "RuntimeError"
    /\ Is(<<"unknown_error">>, FALSE, None)

\* C11: when the URL that was given, with its trailing slashes removed as
\* the validator removes them, is not a well-formed http(s) URL, the call
\* returns is_valid false with error_code invalid_url and sends no request.
C11_InvalidUrlSendsNothing ==
    (/\ verdict # Nothing
     /\ ~HttpUrlValid(rstrip(checked[1].gitlab_url, "/")))
        => /\ Is(<<"invalid_url">>, FALSE, None)
           /\ ~Requested

\* a URL without a scheme was refused although the network would have answered
C11_Witness ==
    /\ verdict # Nothing
    /\ checked[1].gitlab_url = <<"gitlab">>
    /\ checked[1].net = Answer(200, "user")
    /\ Is(<<"invalid_url">>, FALSE, None)
    /\ ~Requested

----------------------------------------------------------------------------
(* The cipher on its own: SpecCipher encrypts a token as a create or update *)
(* does, decrypts it as a merge-request fetch does, and restarts the        *)
(* process under any setting of ENCRYPTION_KEY                              *)

InitCipher ==
    /\ ENCRYPTION_KEY \in KeySettings
    /\ generated = 0
    /\ gitlab_configs = {}
    /\ next_id = 0
    /\ request = NoRequest
    /\ response = NoReply
    /\ validation_result = Nothing
    /\ stored_token = Nothing
    /\ decrypted = Nothing
    /\ checked = Nothing
    /\ verdict = Nothing
    /\ InitGitLab

CipherIdle ==
    UNCHANGED <<gitlab_configs, next_id, request, response, validation_result,
                checked, verdict, gitlab_vars>>

\* encrypt_token(token): the bytes that are stored, with the token, the key
\* text that was resolved and the fact that the process is still the same
Encrypt ==
    /\ generated + Drawn(ENCRYPTION_KEY) <= MaxGenerated
    /\ \E token \in Tokens :
        stored_token' = Some([bytes |-> encrypt_token(token, ENCRYPTION_KEY, NextDraw),
                              token |-> token,
                              key |-> get_encryption_key(ENCRYPTION_KEY, NextDraw),
                              same_process |-> TRUE])
    /\ generated' = generated + Drawn(ENCRYPTION_KEY)
    /\ decrypted' = Nothing
    /\ UNCHANGED ENCRYPTION_KEY
    /\ CipherIdle

\* decrypt_token(stored bytes): its outcome and the key text that was resolved
Decrypt ==
    /\ stored_token # Nothing
    /\ generated + Drawn(ENCRYPTION_KEY) <= MaxGenerated
    /\ \E luck \in WrongKeyLuck :
        decrypted' = Some([outcome |-> decrypt_token(stored_token[1].bytes,
                                                     ENCRYPTION_KEY, NextDraw, luck),
                           key |-> get_encryption_key(ENCRYPTION_KEY, NextDraw)])
    /\ generated' = generated + Drawn(ENCRYPTION_KEY)
    /\ UNCHANGED <<ENCRYPTION_KEY, stored_token>>
    /\ CipherIdle

\* the process is started again, under the same or another ENCRYPTION_KEY
Restart ==
    /\ ENCRYPTION_KEY' \in KeySettings
    /\ stored_token' =
           IF stored_token = Nothing THEN Nothing
           ELSE Some([stored_token[1] EXCEPT !.same_process = FALSE])
    /\ decrypted' = Nothing
    /\ UNCHANGED generated
    /\ CipherIdle

NextCipher == Encrypt \/ Decrypt \/ Restart

SpecCipher == InitCipher /\ [][NextCipher]_vars

\* C7: within one process, under every setting of ENCRYPTION_KEY, decrypting
\* what was encrypted returns the token that was encrypted.
C7_RoundTripInOneProcess ==
    (decrypted # Nothing /\ stored_token[1].same_process)
        => decrypted[1].outcome = Returned(stored_token[1].token)

----------------------------------------------------------------------------
(* Merge-request tools: gitlab_tools.py                                     *)

\* A text is a sequence of parts; a part is the fixed wording it stands for
\* (kind) and the values the f-string puts into it (arg).
Part(kind, arg) == [kind |-> kind, arg |-> arg]
\* the leading mark of every error text
ErrorMarker == Part("error_marker", <<>>)
ErrorText(message, arg) == <<ErrorMarker, Part(message, arg)>>

\* What response.json() gives: it raises (not_json), or it is null, an
\* object (items holds its record of fields, or nothing for {}) or a list
Json(kind, items) == [json |-> kind, items |-> items]
NotJson == Json("not_json", <<>>)
JsonNull == Json("null", <<>>)
JsonObject(fields) == Json("object", <<fields>>)
EmptyObject == Json("object", <<>>)
JsonList(items) == Json("list", items)
\* (mutant) only null is false
JsonTruthyUnlessNull(data) == data.json # "null"
\* truth value of a parsed JSON value
JsonTruthy(data) == data.json \in {"object", "list"} /\ data.items # <<>>

\* one merge request of a list response; complete says that it has the keys
\* the formatting reads
MergeRequest(iid, labels, upvotes, downvotes) ==
    [iid |-> iid, labels |-> labels, upvotes |-> upvotes, downvotes |-> downvotes,
     complete |-> TRUE]
Incomplete(iid) ==
    [iid |-> iid, labels |-> <<>>, upvotes |-> 0, downvotes |-> 0, complete |-> FALSE]

\* response.raise_for_status()
raise_for_status(status) == IF status \in 200..299 THEN "" ELSE "HTTPStatusError"

\* (mutant) seq[:n] is all of seq
SliceAll(seq, n) == seq

\* seq[:n]
Slice(seq, n) == SubSeq(seq, 1, IF Len(seq) < n THEN Len(seq) ELSE n)

\* merge requests the list shows
ListLimit == 10

\* one entry of the list
format_mr(mr) ==
    Part("entry",
         [iid |-> mr.iid,
          labels |-> IF mr.labels # <<>> THEN mr.labels ELSE <<"None">>,
          upvotes |-> IF mr.upvotes > 0 THEN Some(mr.upvotes) ELSE Nothing,
          downvotes |-> IF mr.downvotes > 0 THEN Some(mr.downvotes) ELSE Nothing])

\* client.get of {gitlab_url}/api/v4/projects/{project_id}/merge_requests,
\* of /{mr_number} below it when one is given, and of /changes below that,
\* with the PRIVATE-TOKEN header and the state parameter, if any
Get_(gitlab_url, project_id, mr_number, changes, token, state) ==
    [url |-> gitlab_url, project_id |-> project_id, mr_number |-> mr_number,
     changes |-> changes, token |-> token, state |-> state]

\* the except clauses of a tool, in their order; answer is the response the
\* HTTPStatusError carries
tool_except(attempt, answer, what) ==
    IF attempt.raised = "" THEN attempt
    ELSE IF attempt.raised = "HTTPStatusError" THEN
        Returned(ErrorText("GitLab API Error", <<answer.status>>))
    ELSE IF IsException(attempt.raised) THEN
        Returned(ErrorText(what, <<attempt.raised>>))
    ELSE attempt

\* no response: the exception was raised before any was received
NoAnswer == Failure("none")

\* list_merge_requests up to its await: the text it returns at once, or the
\* GET it sends.  slot is _current_gitlab_config when the call starts.
list_merge_requests_send(slot, state, env, rnd, luck) ==
    LET config == slot[1]
        token == decrypt_token(config.access_token_encrypted, env, rnd, luck)
    IN  IF slot = Nothing THEN
            [outcome |-> Some(Returned(ErrorText("No GitLab configuration selected", <<>>))),
             get |-> Nothing]
        ELSE IF ~Truthy(config.project_id) THEN
            [outcome |-> Some(Returned(ErrorText("No project ID configured", <<>>))),
             get |-> Nothing]
        ELSE IF token.raised # "" THEN
            [outcome |-> Some(tool_except(Raised(token.raised), NoAnswer,
                                          "Error fetching merge requests")),
             get |-> Nothing]
        ELSE
            [outcome |-> Nothing,
             get |-> Some(Get_(config.gitlab_url, config.project_id, Nothing, FALSE,
                               ValueOf(token), Some(state)))]

\* the rest of the try block, once the GET has been answered.  slot is
\* _current_gitlab_config at that time.
list_merge_requests_format(slot, state, answer) ==
    LET merge_requests == answer.body
        shown == Slice(merge_requests.items, ListLimit)
        project_id == slot[1].project_id
    IN  IF answer.kind # "answer" THEN Raised(answer.kind)
        ELSE IF raise_for_status(answer.status) # "" THEN
            Raised(raise_for_status(answer.status))
        ELSE IF merge_requests.json = "not_json" THEN Raised("JSONDecodeError")
        ELSE IF ~JsonTruthy(merge_requests) THEN
            Returned(<<Part("no_merge_requests_found", <<state, project_id>>)>>)
        ELSE IF merge_requests.json # "list" THEN Raised("TypeError")
        ELSE IF \E i \in 1..Len(shown) : ~shown[i].complete THEN Raised("KeyError")
        ELSE Returned(
            <<Part("header", <<project_id>>),
              Part("filter_total", <<state, Len(merge_requests.items)>>)>>
            \o [i \in 1..Len(shown) |-> format_mr(shown[i])]
            \o (IF Len(merge_requests.items) > ListLimit
                THEN <<Part("more", <<Len(merge_requests.items) - ListLimit>>)>>
                ELSE <<>>))

\* list_merge_requests after its await
list_merge_requests_resume(slot, state, answer) ==
    tool_except(list_merge_requests_format(slot, state, answer), answer,
                "Error fetching merge requests")

\* list_merge_requests(state) when nothing else runs between its start and
\* its end: what it returns or raises and the GET it sent, if any
list_merge_requests(slot, state, env, rnd, luck, answer) ==
    LET sent == list_merge_requests_send(slot, state, env, rnd, luck)
    IN  IF sent.outcome # Nothing
        THEN [raised |-> sent.outcome[1].raised, value |-> sent.outcome[1].value,
              gets |-> <<>>]
        ELSE [raised |-> list_merge_requests_resume(slot, state, answer).raised,
              value |-> list_merge_requests_resume(slot, state, answer).value,
              gets |-> <<sent.get[1]>>]

\* the merge request of a details response: description is missing
\* (Nothing), null (Some(None)) or a text
MergeRequestData(iid, description) ==
    [iid |-> iid, description |-> description, complete |-> TRUE]
\* one changed file of a changes response: diff is missing or empty
\* (Nothing) or its lines
Change(new_path, diff) == [new_path |-> new_path, diff |-> diff, complete |-> TRUE]
\* the object of a changes response: changes is missing (Nothing), null
\* (Some(JsonNull)) or a list
ChangesData(changes) == [changes |-> changes]

\* files the details show, and lines of each diff
FileLimit == 5
DiffLineLimit == 10

\* get_merge_request_details up to its first await
get_merge_request_details_send(slot, mr_number, env, rnd, luck) ==
    LET config == slot[1]
        token == decrypt_token(config.access_token_encrypted, env, rnd, luck)
    IN  IF slot = Nothing THEN
            [outcome |-> Some(Returned(ErrorText("No GitLab configuration selected", <<>>))),
             get |-> Nothing]
        ELSE IF ~Truthy(config.project_id) THEN
            [outcome |-> Some(Returned(ErrorText("No project ID configured", <<>>))),
             get |-> Nothing]
        ELSE IF token.raised # "" THEN
            [outcome |-> Some(tool_except(Raised(token.raised), NoAnswer,
                                          "Error fetching merge request details")),
             get |-> Nothing]
        ELSE
            [outcome |-> Nothing,
             get |-> Some(Get_(config.gitlab_url, config.project_id, Some(mr_number),
                               FALSE, ValueOf(token), Nothing))]

\* between the two awaits: the first answer is checked and parsed, then the
\* GET of the changes is sent with the URL and the headers of the first
get_merge_request_details_parse(mr_response) ==
    IF mr_response.kind # "answer" THEN Raised(mr_response.kind)
    ELSE IF raise_for_status(mr_response.status) # "" THEN
        Raised(raise_for_status(mr_response.status))
    ELSE IF mr_response.body.json = "not_json" THEN Raised("JSONDecodeError")
    ELSE Returned(mr_response.body)

\* mr_data.get('description', 'No description provided')
description_of(mr_data) ==
    IF mr_data.description = Nothing THEN <<"No description provided">>
    ELSE mr_data.description[1]

\* (mutant) the whole diff of a changed file is shown
format_change_whole_diff(change) ==
    <<Part("file", <<change.new_path>>)>>
    \o (IF change.diff # Nothing THEN <<Part("diff", change.diff[1])>> ELSE <<>>)

\* the part of the text about one changed file
format_change(change) ==
    <<Part("file", <<change.new_path>>)>>
    \o (IF change.diff # Nothing
        THEN <<Part("diff", Slice(change.diff[1], DiffLineLimit))>>
        ELSE <<>>)

RECURSIVE format_changes(_)
format_changes(changes) ==
    IF changes = <<>> THEN <<>>
    ELSE format_change(Head(changes)) \o format_changes(Tail(changes))

\* the rest of the try block, once the second GET has been answered
get_merge_request_details_format(mr_response, changes_response) ==
    LET mr_data == mr_response.body
        changes_data == changes_response.body
        changes == IF changes_data.items = <<>>
                       \/ changes_data.items[1].changes = Nothing
                   THEN JsonList(<<>>)
                   ELSE changes_data.items[1].changes[1]
        shown == Slice(changes.items, FileLimit)
    IN  IF changes_response.kind # "answer" THEN Raised(changes_response.kind)
        ELSE IF raise_for_status(changes_response.status) # "" THEN
            Raised(raise_for_status(changes_response.status))
        ELSE IF changes_data.json = "not_json" THEN Raised("JSONDecodeError")
        ELSE IF mr_data.json # "object" THEN Raised("TypeError")
        ELSE IF mr_data.items = <<>> \/ ~mr_data.items[1].complete THEN Raised("KeyError")
        ELSE IF changes_data.json # "object" THEN Raised("AttributeError")
        ELSE IF JsonTruthy(changes) /\ changes.json # "list" THEN Raised("TypeError")
        ELSE IF JsonTruthy(changes) /\ \E i \in 1..Len(shown) : ~shown[i].complete THEN
            Raised("KeyError")
        ELSE Returned(
            <<Part("details", <<mr_data.items[1].iid>>),
              Part("description", description_of(mr_data.items[1]))>>
            \o (IF JsonTruthy(changes)
                THEN <<Part("files_changed", <<Len(changes.items)>>)>>
                     \o format_changes(shown)
                     \o (IF Len(changes.items) > FileLimit
                         THEN <<Part("more_files", <<Len(changes.items) - FileLimit>>)>>
                         ELSE <<>>)
                ELSE <<Part("no_changes", <<>>)>>)
            \o <<Part("url", <<mr_data.items[1].iid>>)>>)

\* get_merge_request_details after its first await: what it returns, or the
\* second GET
get_merge_request_details_resume(get, mr_response) ==
    LET mr_data == get_merge_request_details_parse(mr_response)
    IN  IF mr_data.raised # "" THEN
            [outcome |-> Some(tool_except(mr_data, mr_response,
                                          "Error fetching merge request details")),
             get |-> Nothing]
        ELSE
            [outcome |-> Nothing, get |-> Some([get EXCEPT !.changes = TRUE])]

\* get_merge_request_details after its second await
get_merge_request_details_finish(mr_response, changes_response) ==
    tool_except(get_merge_request_details_format(mr_response, changes_response),
                changes_response, "Error fetching merge request details")

\* get_merge_request_details(mr_number): what it returns or raises and the
\* GETs it sent
get_merge_request_details(slot, mr_number, env, rnd, luck, mr_response, changes_response) ==
    LET sent == get_merge_request_details_send(slot, mr_number, env, rnd, luck)
        next == get_merge_request_details_resume(sent.get[1], mr_response)
        last == get_merge_request_details_finish(mr_response, changes_response)
    IN  IF sent.outcome # Nothing
        THEN [raised |-> sent.outcome[1].raised, value |-> sent.outcome[1].value,
              gets |-> <<>>]
        ELSE IF next.outcome # Nothing
        THEN [raised |-> next.outcome[1].raised, value |-> next.outcome[1].value,
              gets |-> <<sent.get[1]>>]
        ELSE [raised |-> last.raised, value |-> last.value,
              gets |-> <<sent.get[1], next.get[1]>>]

----------------------------------------------------------------------------
(* The tools on their own: SpecTools sets the selected configuration and    *)
(* calls each tool once at a time, under every answer of the server         *)

\* merge requests of the longest list response, and files of the longest
\* changes response
MaxMRs == 12
MaxFiles == 6

\* the key the stored tokens were encrypted under, and the settings of
\* ENCRYPTION_KEY the tools run under: that key, another key, and a key with
\* the same signing half and another encryption half
TokenKey == Phrase(1)
ToolKeySettings == {Phrase(1), Phrase(2), B64Text(1, 2, 0)}

\* a stored row whose token was encrypted under TokenKey
StoredConfig(id, user_id, gitlab_url, project_id, is_active) ==
    GitLabConfig(id, user_id, None, gitlab_url,
                 encrypt_token(<<"glpat", gitlab_url[2]>>, TokenKey, Draw(1)),
                 project_id, is_active)

ToolConfigs ==
    {StoredConfig(1, "u1", <<"https://", "a">>, <<"42">>, TRUE),
     StoredConfig(2, "u1", <<"https://", "b">>, <<"7">>, FALSE),
     StoredConfig(3, "u1", <<"https://", "a">>, None, TRUE),
     StoredConfig(4, "u1", <<"https://", "b">>, <<>>, TRUE)}

\* the state argument: the four filters and any other string
ListStates == {"opened", "closed", "merged", "all", "bogus"}
MrNumbers == {7, 456}

\* list responses: n merge requests in ascending or descending order of
\* iid, with and without labels and votes
MergeRequests(n, ascending) ==
    [i \in 1..n |->
        MergeRequest(IF ascending THEN i ELSE n + 1 - i,
                     IF i % 2 = 0 THEN <<"bug">> ELSE <<>>, i % 3, i % 2)]
\* the same with the k-th entry lacking a key
MergeRequestsLacking(n, k) ==
    [i \in 1..n |-> IF i = k THEN Incomplete(i) ELSE MergeRequests(n, TRUE)[i]]

ErrorStatuses == {204, 302, 401, 404, 500}
ToolFailures == {"ConnectTimeout", "ReadTimeout", "ConnectError", "RuntimeError"}

ListAnswers ==
    {Answer(200, JsonList(MergeRequests(n, asc))) : n \in 0..MaxMRs, asc \in BOOLEAN}
    \cup {Answer(200, JsonList(MergeRequestsLacking(MaxMRs, k))) : k \in {1, MaxMRs}}
    \cup {Answer(200, b) : b \in {NotJson, JsonNull, EmptyObject,
                                  JsonObject([message |-> "error"])}}
    \cup {Answer(st, NotJson) : st \in ErrorStatuses}
    \cup {Failure(e) : e \in ToolFailures}

\* details responses
Descriptions == {Nothing, Some(None), Some(<<"text">>)}
MrAnswers ==
    {Answer(200, JsonObject(MergeRequestData(n, d))) : n \in MrNumbers, d \in Descriptions}
    \cup {Answer(200, b) : b \in {NotJson, JsonNull, EmptyObject, JsonList(<<>>),
                                  JsonObject([MergeRequestData(7, Nothing)
                                              EXCEPT !.complete = FALSE])}}
    \cup {Answer(st, NotJson) : st \in {404, 500}}
    \cup {Failure(e) : e \in {"ReadTimeout", "ConnectError"}}

\* m changed files: every third has no diff, the others have 4, 8, 16, ...
\* lines
Changes(m) ==
    [i \in 1..m |->
        Change(<<"file", i>>,
               IF i % 3 = 0 THEN Nothing ELSE Some([l \in 1..(4 * i) |-> l]))]
ChangesAnswers ==
    {Answer(200, JsonObject(ChangesData(Some(JsonList(Changes(m)))))) : m \in 0..MaxFiles}
    \cup {Answer(200, JsonObject(ChangesData(c))) : c \in {Nothing, Some(JsonNull)}}
    \cup {Answer(200, JsonObject(ChangesData(Some(JsonList(
              <<[Change(<<"file", 1>>, Nothing) EXCEPT !.complete = FALSE]>>)))))}
    \cup {Answer(200, b) : b \in {NotJson, JsonNull, EmptyObject, JsonList(<<>>)}}
    \cup {Answer(500, NotJson), Failure("ReadTimeout")}

InitTools ==
    /\ ENCRYPTION_KEY \in ToolKeySettings
    /\ generated = 0
    /\ gitlab_configs = {}
    /\ next_id = 0
    /\ request = NoRequest
    /\ response = NoReply
    /\ validation_result = Nothing
    /\ stored_token = Nothing
    /\ decrypted = Nothing
    /\ checked = Nothing
    /\ verdict = Nothing
    /\ InitGitLab

ToolsIdle ==
    UNCHANGED <<ENCRYPTION_KEY, generated, gitlab_configs, next_id, request, response,
                validation_result, stored_token, decrypted, checked, verdict, agents,
                tasks>>

\* set_gitlab_config(config)
set_gitlab_config(config) == current_gitlab_config' = Some(config)

\* a configuration is selected for the tool calls that follow; the record of
\* the last call is dropped
SetGitlabConfig ==
    /\ \E config \in ToolConfigs : set_gitlab_config(config)
    /\ tool' = Nothing
    /\ ToolsIdle

\* a call of a tool: its name, its argument, the selected configuration, the
\* answers of the server, what decrypt_token did and what the tool did
ToolCall(name, arg, answers, token, outcome) ==
    [name |-> name, arg |-> arg, slot |-> current_gitlab_config, answers |-> answers,
     token |-> token, outcome |-> outcome]

ListMergeRequests ==
    /\ tool = Nothing
    /\ \E state \in ListStates, answer \in ListAnswers, luck \in WrongKeyLuck :
        tool' = Some(ToolCall("list_merge_requests", state, <<answer>>,
                    IF current_gitlab_config = Nothing THEN Raised("not called")
                    ELSE decrypt_token(current_gitlab_config[1].access_token_encrypted,
                                       ENCRYPTION_KEY, NextDraw, luck),
                    list_merge_requests(current_gitlab_config, state, ENCRYPTION_KEY,
                                        NextDraw, luck, answer)))
    /\ UNCHANGED current_gitlab_config
    /\ ToolsIdle

GetMergeRequestDetails ==
    /\ tool = Nothing
    /\ \E mr_number \in MrNumbers, mr_response \in MrAnswers,
          changes_response \in ChangesAnswers, luck \in WrongKeyLuck :
        tool' = Some(ToolCall("get_merge_request_details", mr_number,
                    <<mr_response, changes_response>>,
                    IF current_gitlab_config = Nothing THEN Raised("not called")
                    ELSE decrypt_token(current_gitlab_config[1].access_token_encrypted,
                                       ENCRYPTION_KEY, NextDraw, luck),
                    get_merge_request_details(current_gitlab_config, mr_number,
                        ENCRYPTION_KEY, NextDraw, luck, mr_response, changes_response)))
    /\ UNCHANGED current_gitlab_config
    /\ ToolsIdle

NextTools == SetGitlabConfig \/ ListMergeRequests \/ GetMergeRequestDetails

SpecTools == InitTools /\ [][NextTools]_vars

\* the last call of a tool, the text it returned and the body of its i-th
\* answer
Tool == tool[1]
Text == ValueOf(Tool.outcome)
Body(i) == Tool.answers[i].body
IsErrorText(text) == text # <<>> /\ text[1].kind = "error_marker"
Entries(text) == SelectSeq(text, LAMBDA part : part.kind = "entry")
Notices(text) == SelectSeq(text, LAMBDA part : part.kind = "more")
Called(name) == tool # Nothing /\ Tool.name = name
Succeeded == Tool.outcome.raised = "" /\ ~IsErrorText(Text)

\* C12: a successful list_merge_requests whose response holds n >= 1 merge
\* requests renders min(n, 10) entries, the first ones in the order of the
\* response, and ends with the notice of n - 10 more exactly when n > 10.
C12_ListShowsFirstTen ==
    (/\ Called("list_merge_requests")
     /\ Succeeded
     /\ Len(Body(1).items) >= 1)
        => LET n == Len(Body(1).items)
               shown == IF n < 10 THEN n ELSE 10
           IN  /\ Len(Entries(Text)) = shown
               /\ \A i \in 1..shown : Entries(Text)[i].arg.iid = Body(1).items[i].iid
               /\ Len(Notices(Text)) = IF n > 10 THEN 1 ELSE 0
               /\ n > 10 => /\ Text[Len(Text)].kind = "more"
                            /\ Text[Len(Text)].arg = <<n - 10>>

\* twelve merge requests in descending order gave ten entries, the first and
\* the tenth of the response among them, and the notice of two more
C12_Witness ==
    /\ Called("list_merge_requests")
    /\ Succeeded
    /\ Len(Body(1).items) = 12
    /\ Body(1).items[1].iid = 12
    /\ Len(Entries(Text)) = 10
    /\ Entries(Text)[1].arg.iid = 12
    /\ Entries(Text)[10].arg.iid = 3
    /\ Text[Len(Text)] = Part("more", <<2>>)

\* C13: when the server answers with an empty list, list_merge_requests
\* returns one message that names the requested state and the project, with
\* no entry, no header and no notice.
C13_NoMergeRequestsMessage ==
    (/\ Called("list_merge_requests")
     /\ Tool.outcome.gets # <<>>
     /\ Tool.answers[1].kind = "answer"
     /\ Tool.answers[1].status \in 200..299
     /\ Body(1).json = "list"
     /\ Body(1).items = <<>>)
        => /\ Tool.outcome.raised = ""
           /\ Len(Text) = 1
           /\ Text[1].kind = "no_merge_requests_found"
           /\ Text[1].arg[1] = Tool.arg

\* an empty list for the filter closed gave the message that names closed
C13_Witness ==
    /\ Called("list_merge_requests")
    /\ Tool.arg = "closed"
    /\ Tool.outcome.gets # <<>>
    /\ Tool.answers[1] = Answer(200, JsonList(<<>>))
    /\ Len(Text) = 1
    /\ Text[1].kind = "no_merge_requests_found"
    /\ Text[1].arg[1] = "closed"

\* the response body of a list is not a list of merge requests with the keys
\* that are rendered
MalformedList(body) ==
    \/ body.json # "list"
    \/ \E i \in 1..Len(Slice(body.items, 10)) : ~body.items[i].complete
\* the response body of a merge request is not an object with the keys that
\* are rendered
MalformedMergeRequest(body) ==
    \/ body.json # "object"
    \/ body.items = <<>>
    \/ ~body.items[1].complete
\* the response body of the changes is not an object, or its changes are
\* neither absent nor a list of files with the keys that are rendered
MalformedChanges(body) ==
    \/ body.json # "object"
    \/ /\ body.items # <<>>
       /\ body.items[1].changes # Nothing
       /\ body.items[1].changes[1].json # "null"
       /\ MalformedList(body.items[1].changes[1])

\* the last call of a tool met one of the failures
ToolFailed ==
    \/ Tool.slot = Nothing
    \/ ~Truthy(Tool.slot[1].project_id)
    \/ Tool.token.raised # ""
    \/ \E i \in DOMAIN Tool.answers :
          \/ Tool.answers[i].kind # "answer"
          \/ Tool.answers[i].status \notin 200..299
    \/ /\ Tool.name = "list_merge_requests"
       /\ MalformedList(Body(1))
    \/ /\ Tool.name = "get_merge_request_details"
       /\ MalformedMergeRequest(Body(1)) \/ MalformedChanges(Body(2))

\* C18: a tool raises nothing; its text begins with the error marker on
\* every failure (no configuration selected, no project id, a token that
\* does not decrypt, a status that is not 2xx, a timeout, a transport
\* failure, a malformed body) and does not begin with it on a success.
C18_ToolsMarkEveryFailure ==
    tool # Nothing =>
        /\ Tool.outcome.raised = ""
        /\ Tool.outcome.value # Nothing
        /\ ToolFailed <=> IsErrorText(Text)

----------------------------------------------------------------------------
(* Conversation agent: gitlab_agent.py                                      *)

\* A text that a user types is a sequence of characters.
UpperCase ==
    <<"A", "B", "C", "D", "E", "F", "G", "H", "I", "J", "K", "L", "M", "N", "O", "P", "Q",
      "R", "S", "T", "U", "V", "W", "X", "Y", "Z">>
LowerCase ==
    <<"a", "b", "c", "d", "e", "f", "g", "h", "i", "j", "k", "l", "m", "n", "o", "p", "q",
      "r", "s", "t", "u", "v", "w", "x", "y", "z">>
Digits == <<"0", "1", "2", "3", "4", "5", "6", "7", "8", "9">>

\* str.lower()
lower(s) ==
    [i \in 1..Len(s) |->
        IF \E k \in 1..Len(UpperCase) : UpperCase[k] = s[i]
        THEN LowerCase[CHOOSE k \in 1..Len(UpperCase) : UpperCase[k] = s[i]]
        ELSE s[i]]

\* \s and \d of the pattern
IsSpace(ch) == ch \in {" ", "\t", "\n"}
IsDigit(ch) == \E k \in 1..Len(Digits) : Digits[k] = ch

\* s[i:].startswith(literal)
StartsAt(s, i, literal) ==
    /\ i >= 1
    /\ i + Len(literal) - 1 <= Len(s)
    /\ SubSeq(s, i, i + Len(literal) - 1) = literal

\* str.startswith(prefix)
startswith(s, prefix) == StartsAt(s, 1, prefix)

\* keyword in s
Contains(s, keyword) == \E i \in 1..(Len(s) + 1) : StartsAt(s, i, keyword)

RECURSIVE AfterSpaces(_, _)
\* the position after the white space that starts at i: \s*
AfterSpaces(s, i) == IF i <= Len(s) /\ IsSpace(s[i]) THEN AfterSpaces(s, i + 1) ELSE i

RECURSIVE AfterDigits(_, _)
\* the position after the digits that start at i: \d+ when it is beyond i
AfterDigits(s, i) == IF i <= Len(s) /\ IsDigit(s[i]) THEN AfterDigits(s, i + 1) ELSE i

\* the position after (?:!|mr|merge\s+request) when it matches at i, else 0
AfterReferenceWord(s, i) ==
    IF StartsAt(s, i, <<"!">>) THEN i + 1
    ELSE IF StartsAt(s, i, <<"m", "r">>) THEN i + 2
    ELSE IF /\ StartsAt(s, i, <<"m", "e", "r", "g", "e">>)
            /\ AfterSpaces(s, i + 5) > i + 5
            /\ StartsAt(s, AfterSpaces(s, i + 5), <<"r", "e", "q", "u", "e", "s", "t">>)
         THEN AfterSpaces(s, i + 5) + 7
    ELSE 0

\* the digits of group 1 when the pattern matches at i, else nothing
MatchAt(s, i) ==
    LET word == AfterReferenceWord(s, i)
        first == AfterSpaces(s, word)
        last == AfterDigits(s, first)
    IN  IF word # 0 /\ last > first THEN Some(SubSeq(s, first, last - 1)) ELSE Nothing

\* re.search(r'(?:!|mr|merge\s+request)\s*(\d+)', s): group 1 of the
\* leftmost match, or nothing
re_search(s) ==
    IF \E i \in 1..Len(s) : MatchAt(s, i) # Nothing
    THEN MatchAt(s, CHOOSE i \in 1..Len(s) :
                        /\ MatchAt(s, i) # Nothing
                        /\ \A j \in 1..(i - 1) : MatchAt(s, j) = Nothing)
    ELSE Nothing

RECURSIVE int(_)
\* int(digits)
int(digits) ==
    IF digits = <<>> THEN 0
    ELSE 10 * int(SubSeq(digits, 1, Len(digits) - 1))
         + (CHOOSE k \in 1..Len(Digits) : Digits[k] = digits[Len(digits)]) - 1

\* texts that users type
\* "show me merge request !456"
ShowMeMergeRequest456 ==
    <<"s", "h", "o", "w", " ", "m", "e", " ", "m", "e", "r", "g", "e", " ",
      "r", "e", "q", "u", "e", "s", "t", " ", "!", "4", "5", "6">>
\* "Show MR 12"
ShowMR12 ==
    <<"S", "h", "o", "w", " ", "M", "R", " ", "1", "2">>
\* "please LIST Merge  Request 7 and show it"
ListMergeRequest7Please ==
    <<"p", "l", "e", "a", "s", "e", " ", "L", "I", "S", "T", " ", "M", "e",
      "r", "g", "e", " ", " ", "R", "e", "q", "u", "e", "s", "t", " ", "7",
      " ", "a", "n", "d", " ", "s", "h", "o", "w", " ", "i", "t">>
\* "list all merge requests"
ListAllMergeRequests ==
    <<"l", "i", "s", "t", " ", "a", "l", "l", " ", "m", "e", "r", "g", "e",
      " ", "r", "e", "q", "u", "e", "s", "t", "s">>
\* "show closed MRs"
ShowClosedMRs ==
    <<"s", "h", "o", "w", " ", "c", "l", "o", "s", "e", "d", " ", "M", "R",
      "s">>
\* "merged pull requests"
MergedPullRequests ==
    <<"m", "e", "r", "g", "e", "d", " ", "p", "u", "l", "l", " ", "r", "e",
      "q", "u", "e", "s", "t", "s">>
\* "hello there"
HelloThere ==
    <<"h", "e", "l", "l", "o", " ", "t", "h", "e", "r", "e">>
\* "!456"
Bang456Alone ==
    <<"!", "4", "5", "6">>
\* ""
EmptyQuery == <<>>
Queries ==
    {ShowMeMergeRequest456, ShowMR12, ListMergeRequest7Please,
     ListAllMergeRequests, ShowClosedMRs, MergedPullRequests,
     HelloThere, Bang456Alone,
     EmptyQuery}

\* "/show-mr"
ShowMrCommand ==
    <<"/", "s", "h", "o", "w", "-", "m", "r">>
\* "/review-mr"
ReviewMrCommand ==
    <<"/", "r", "e", "v", "i", "e", "w", "-", "m", "r">>
\* "/help"
HelpCommand ==
    <<"/", "h", "e", "l", "p">>
Commands == {ShowMrCommand, ReviewMrCommand, HelpCommand}

\* str(config.id): the canonical text of the UUID
str(id) == <<"uuid", id>>

\* GitLabAgent(user_id, gitlab_configs) after __init__
GitLabAgent(user_id, configs) ==
    [user_id |-> user_id, gitlab_configs |-> configs, selected_config |-> Nothing]

\* list_gitlab_configs()
list_gitlab_configs(agent) ==
    IF agent.gitlab_configs = <<>> THEN <<Part("no_configurations_found", <<>>)>>
    ELSE [idx \in 1..Len(agent.gitlab_configs) |->
            LET config == agent.gitlab_configs[idx]
            IN  Part("config",
                     [idx |-> idx,
                      name |-> IF Truthy(config.config_name) THEN config.config_name
                               ELSE <<"Config ", idx>>,
                      url |-> config.gitlab_url,
                      status |-> IF config.is_active THEN "Valid" ELSE "Invalid",
                      id |-> config.id])]

\* the configurations of the list whose id reads as config_id
Resolving(agent, config_id) ==
    SelectSeq(agent.gitlab_configs, LAMBDA config : str(config.id) = config_id)

\* (mutant) select_config_by_id that falls back on the first configuration
select_config_by_id_or_first(agent, config_id) ==
    IF Resolving(agent, config_id) # <<>>
    THEN [found |-> TRUE,
          agent |-> [agent EXCEPT !.selected_config = Some(Resolving(agent, config_id)[1])]]
    ELSE IF agent.gitlab_configs # <<>>
    THEN [found |-> FALSE,
          agent |-> [agent EXCEPT !.selected_config = Some(agent.gitlab_configs[1])]]
    ELSE [found |-> FALSE, agent |-> agent]

\* select_config_by_id(config_id): what it returns and the agent afterwards
select_config_by_id(agent, config_id) ==
    IF Resolving(agent, config_id) # <<>>
    THEN [found |-> TRUE,
          agent |-> [agent EXCEPT !.selected_config = Some(Resolving(agent, config_id)[1])]]
    ELSE [found |-> FALSE, agent |-> agent]

\* (mutant) the first active configuration is selected when there are several
auto_select_first(active_configs) ==
    IF Len(active_configs) >= 1 THEN Some(active_configs[1]) ELSE Nothing

\* handle_query: the configuration that is selected when only one is active
auto_select(active_configs) ==
    IF Len(active_configs) = 1 THEN Some(active_configs[1]) ELSE Nothing

\* a call of a tool by the agent
ToolUse(name, state, mr_number) == [tool |-> name, state |-> state, mr_number |-> mr_number]
NoToolUse == ToolUse("none", "", 0)

ListKeywords ==
    {<<"l", "i", "s", "t">>, <<"s", "h", "o", "w">>,
     <<"m", "e", "r", "g", "e", " ", "r", "e", "q", "u", "e", "s", "t">>, <<"m", "r">>,
     <<"p", "u", "l", "l", " ", "r", "e", "q", "u", "e", "s", "t">>}

\* handle_query: the filter the query names
state_of(query_lower) ==
    IF Contains(query_lower, <<"c", "l", "o", "s", "e", "d">>) THEN "closed"
    ELSE IF Contains(query_lower, <<"m", "e", "r", "g", "e", "d">>) THEN "merged"
    ELSE IF Contains(query_lower, <<"a", "l", "l">>) THEN "all"
    ELSE "opened"

\* (mutant) the list keywords are looked for before the reference
intent_keywords_first(query) ==
    LET query_lower == lower(query)
        mr_number_match == re_search(query_lower)
    IN  IF \E keyword \in ListKeywords : Contains(query_lower, keyword)
        THEN ToolUse("list_merge_requests", state_of(query_lower), 0)
        ELSE IF mr_number_match # Nothing
        THEN ToolUse("get_merge_request_details", "", int(mr_number_match[1]))
        ELSE NoToolUse

\* handle_query: the tool call the query is parsed to, if any
intent(query) ==
    LET query_lower == lower(query)
        mr_number_match == re_search(query_lower)
    IN  IF mr_number_match # Nothing
        THEN ToolUse("get_merge_request_details", "", int(mr_number_match[1]))
        ELSE IF \E keyword \in ListKeywords : Contains(query_lower, keyword)
        THEN ToolUse("list_merge_requests", state_of(query_lower), 0)
        ELSE NoToolUse

\* return None
ReturnedNone == [raised |-> "", value |-> Nothing]

\* the coroutine of a conversation: where it stands (pc), the method that
\* runs and its arguments, the tool calls it made, the GETs it sent, the
\* first answer of a details call, what the method returned, and the
\* selection and the selected configuration of the tools when it began
Task(pc, op, text, config_id, before) ==
    [pc |-> pc, op |-> op, text |-> text, config_id |-> config_id, calls |-> <<>>,
     gets |-> <<>>, mr_response |-> Nothing, result |-> Nothing, before |-> before]
Before(agent, slot) == [selected_config |-> agent.selected_config, slot |-> slot]
IdleTask == Task("idle", "none", <<>>, None, [selected_config |-> Nothing, slot |-> Nothing])

\* (mutant) /review-mr returns the list as /show-mr does
with_next_step_never(task, outcome) == outcome

\* process_with_config: '/review-mr' appends the next step to the list
with_next_step(task, outcome) ==
    IF /\ task.op = "process_with_config"
       /\ startswith(task.text, ReviewMrCommand)
       /\ outcome.raised = ""
    THEN Returned(ValueOf(outcome) \o <<Part("next_step", <<>>)>>)
    ELSE outcome

\* the method returns outcome
Done(task, outcome) == [task EXCEPT !.pc = "done", !.result = Some(outcome)]

\* the tool has returned outcome, and the method returns
ToolDone(task, outcome) == Done(task, with_next_step(task, outcome))

\* the method calls a tool: the tool returns at once, or it sends its GET
\* and waits
call_tool(task, use, slot, env, rnd, luck) ==
    LET sent == IF use.tool = "list_merge_requests"
                THEN list_merge_requests_send(slot, use.state, env, rnd, luck)
                ELSE get_merge_request_details_send(slot, use.mr_number, env, rnd, luck)
        called == [task EXCEPT !.calls = <<use>>]
    IN  IF sent.outcome # Nothing THEN ToolDone(called, sent.outcome[1])
        ELSE [called EXCEPT
                 !.pc = IF use.tool = "list_merge_requests" THEN "list" ELSE "details_1",
                 !.gets = <<sent.get[1]>>]

\* the GET the task waits for is answered; slot is _current_gitlab_config
\* at that time
resume_tool(task, slot, answer) ==
    LET next == get_merge_request_details_resume(task.gets[1], answer)
    IN  IF task.pc = "list" THEN
            ToolDone(task, list_merge_requests_resume(slot, task.calls[1].state, answer))
        ELSE IF task.pc = "details_1" THEN
            IF next.outcome # Nothing THEN ToolDone(task, next.outcome[1])
            ELSE [task EXCEPT !.pc = "details_2", !.mr_response = Some(answer),
                              !.gets = @ \o <<next.get[1]>>]
        ELSE ToolDone(task, get_merge_request_details_finish(task.mr_response[1], answer))

\* what a method did when it returned or reached an await: the agent, the
\* selected configuration of the tools and the coroutine
Step(agent, slot, task) == [agent |-> agent, slot |-> slot, task |-> task]

\* handle_query: the text that asks for a selection
selection_prompt(agent) ==
    <<Part("select_configuration_first", <<>>)>>
    \o list_gitlab_configs(agent)
    \o <<Part("then_use_commands", <<>>)>>

\* handle_query(query, last_config_id) up to its return or its first await
handle_query(agent, slot, query, last_config_id, env, rnd, luck) ==
    LET task == Task("run", "handle_query", query, last_config_id, Before(agent, slot))
        remembered ==
            IF agent.selected_config = Nothing /\ Truthy(last_config_id)
            THEN select_config_by_id(agent, last_config_id)
            ELSE [found |-> FALSE, agent |-> agent]
        active_configs ==
            SelectSeq(agent.gitlab_configs, LAMBDA config : config.is_active)
        selecting ==
            IF agent.selected_config # Nothing \/ remembered.found THEN remembered.agent
            ELSE IF auto_select(active_configs) # Nothing
            THEN [remembered.agent EXCEPT !.selected_config = auto_select(active_configs)]
            ELSE remembered.agent
        prompts ==
            /\ agent.selected_config = Nothing
            /\ ~remembered.found
            /\ auto_select(active_configs) = Nothing
    IN  IF prompts
        THEN Step(selecting, slot, Done(task, Returned(selection_prompt(agent))))
        ELSE IF intent(query).tool = "none"
        THEN Step(selecting, selecting.selected_config, Done(task, ReturnedNone))
        ELSE Step(selecting, selecting.selected_config,
                  call_tool(task, intent(query), selecting.selected_config, env, rnd, luck))

\* self.agent.run(prompt): the reply of the language model to a prompt that
\* asks for a text and for no tool call
agent_run(asks, config_list) ==
    <<Part("model_reply", <<asks>>)>> \o config_list

\* process_command(command)
process_command(agent, slot, command) ==
    LET task == Task("run", "process_command", command, None, Before(agent, slot))
    IN  Step(agent, slot,
             Done(task,
                  IF agent.gitlab_configs = <<>>
                  THEN Returned(ErrorText("No GitLab Configurations Found", <<>>))
                  ELSE IF startswith(command, ShowMrCommand)
                  THEN Returned(agent_run("select a configuration to show merge requests",
                                          list_gitlab_configs(agent)))
                  ELSE IF startswith(command, ReviewMrCommand)
                  THEN Returned(agent_run("select a configuration to review a merge request",
                                          list_gitlab_configs(agent)))
                  ELSE Returned(ErrorText("Unknown command", command))))

\* process_with_config(command, config_id) up to its return or its await
process_with_config(agent, slot, command, config_id, env, rnd, luck) ==
    LET task == Task("run", "process_with_config", command, config_id, Before(agent, slot))
        selected == select_config_by_id(agent, config_id)
    IN  IF ~selected.found
        THEN Step(selected.agent, slot,
                  Done(task, Returned(ErrorText("GitLab configuration not found",
                                                config_id))))
        ELSE IF startswith(command, ShowMrCommand) \/ startswith(command, ReviewMrCommand)
        THEN Step(selected.agent, selected.agent.selected_config,
                  call_tool(task, ToolUse("list_merge_requests", "opened", 0),
                            selected.agent.selected_config, env, rnd, luck))
        ELSE Step(selected.agent, selected.agent.selected_config,
                  Done(task, Returned(ErrorText("Unknown command", command))))

----------------------------------------------------------------------------
(* One conversation: SpecAgent runs the methods of one GitLabAgent, one at   *)
(* a time, over every list of configurations, text, command and id          *)

\* the rows of user u1 that an agent is built with
ConfigLists ==
    {<<>>,
     <<StoredConfig(1, "u1", <<"https://", "a">>, <<"42">>, TRUE)>>,
     <<StoredConfig(1, "u1", <<"https://", "a">>, <<"42">>, TRUE),
       StoredConfig(2, "u1", <<"https://", "b">>, <<"7">>, TRUE)>>,
     <<StoredConfig(1, "u1", <<"https://", "a">>, <<"42">>, TRUE),
       StoredConfig(2, "u1", <<"https://", "b">>, <<"7">>, FALSE)>>,
     <<StoredConfig(1, "u1", <<"https://", "a">>, <<"42">>, FALSE),
       StoredConfig(2, "u1", <<"https://", "b">>, <<"7">>, FALSE)>>,
     <<StoredConfig(3, "u1", <<"https://", "a">>, None, TRUE)>>}

\* last_config_id of the session: none, empty, the id of a row, another id
LastConfigIds == {None, <<>>, str(1), str(2), str(9)}
\* config_id of process_with_config: the id of a row, another id, an id in
\* another spelling
ConfigIdArgs == {str(1), str(2), str(9), <<"UUID", 1>>}

\* what the server answers to the GET a task waits for
AgentAnswers(task) ==
    IF task.pc = "list" THEN
        {Answer(200, JsonList(MergeRequests(2, TRUE))), Answer(200, JsonList(<<>>)),
         Answer(500, NotJson), Failure("ReadTimeout")}
    ELSE IF task.pc = "details_1" THEN
        {Answer(200, JsonObject(MergeRequestData(task.calls[1].mr_number, Some(<<"text">>)))),
         Answer(404, NotJson)}
    ELSE
        {Answer(200, JsonObject(ChangesData(Some(JsonList(Changes(1)))))),
         Failure("ReadTimeout")}

InitAgent ==
    /\ ENCRYPTION_KEY = TokenKey
    /\ generated = 0
    /\ gitlab_configs = {}
    /\ next_id = 0
    /\ request = NoRequest
    /\ response = NoReply
    /\ validation_result = Nothing
    /\ stored_token = Nothing
    /\ decrypted = Nothing
    /\ checked = Nothing
    /\ verdict = Nothing
    /\ current_gitlab_config = Nothing
    /\ tool = Nothing
    /\ agents \in {<<GitLabAgent("u1", configs)>> : configs \in ConfigLists}
    /\ tasks = <<IdleTask>>

AgentIdle ==
    UNCHANGED <<ENCRYPTION_KEY, generated, gitlab_configs, next_id, request, response,
                validation_result, stored_token, decrypted, checked, verdict, tool>>

\* conversation c has run a method up to its return or its next await
Ran(c, step) ==
    /\ agents' = [agents EXCEPT ![c] = step.agent]
    /\ current_gitlab_config' = step.slot
    /\ tasks' = [tasks EXCEPT ![c] = step.task]

HandleQuery ==
    /\ \E c \in DOMAIN agents, query \in Queries, last_config_id \in LastConfigIds,
          luck \in WrongKeyLuck :
        /\ tasks[c].pc = "idle"
        /\ Ran(c, handle_query(agents[c], current_gitlab_config, query, last_config_id,
                               ENCRYPTION_KEY, NextDraw, luck))
    /\ AgentIdle

ProcessCommand ==
    /\ \E c \in DOMAIN agents, command \in Commands :
        /\ tasks[c].pc = "idle"
        /\ Ran(c, process_command(agents[c], current_gitlab_config, command))
    /\ AgentIdle

ProcessWithConfig ==
    /\ \E c \in DOMAIN agents, command \in Commands, config_id \in ConfigIdArgs,
          luck \in WrongKeyLuck :
        /\ tasks[c].pc = "idle"
        /\ Ran(c, process_with_config(agents[c], current_gitlab_config, command,
                                      config_id, ENCRYPTION_KEY, NextDraw, luck))
    /\ AgentIdle

\* the GET a coroutine waits for is answered, and the coroutine runs on
Answered ==
    /\ \E c \in DOMAIN agents :
        /\ tasks[c].pc \in {"list", "details_1", "details_2"}
        /\ \E answer \in AgentAnswers(tasks[c]) :
            tasks' = [tasks EXCEPT ![c] = resume_tool(tasks[c], current_gitlab_config,
                                                      answer)]
    /\ UNCHANGED <<agents, current_gitlab_config>>
    /\ AgentIdle

\* the caller has taken what the method returned
Returns ==
    /\ \E c \in DOMAIN agents :
        /\ tasks[c].pc = "done"
        /\ tasks' = [tasks EXCEPT ![c] = IdleTask]
    /\ UNCHANGED <<agents, current_gitlab_config>>
    /\ AgentIdle

NextAgent == HandleQuery \/ ProcessCommand \/ ProcessWithConfig \/ Answered \/ Returns

SpecAgent == InitAgent /\ [][NextAgent]_vars

\* the one conversation of SpecAgent: its agent, its coroutine, the text the
\* method returned
TheAgent == agents[1]
TheTask == tasks[1]
Ran_(op) == TheTask.op = op /\ TheTask.pc # "idle"
Returned_(op) == TheTask.op = op /\ TheTask.pc = "done"
ResultText == ValueOf(TheTask.result[1])
Selected == TheAgent.selected_config
ActiveCount ==
    Cardinality({i \in DOMAIN TheAgent.gitlab_configs : TheAgent.gitlab_configs[i].is_active})
\* config_id reads as the id of one of the agent's configurations
Resolves(config_id) ==
    \E i \in DOMAIN TheAgent.gitlab_configs : str(TheAgent.gitlab_configs[i].id) = config_id
Resolved(config_id) ==
    TheAgent.gitlab_configs[
        CHOOSE i \in DOMAIN TheAgent.gitlab_configs :
            str(TheAgent.gitlab_configs[i].id) = config_id]

\* the merge request a text refers to, or 0
ReferenceIn(text) ==
    IF text = ShowMeMergeRequest456 THEN 456
    ELSE IF text = ShowMR12 THEN 12
    ELSE IF text = ListMergeRequest7Please THEN 7
    ELSE IF text = Bang456Alone THEN 456
    ELSE 0

\* C14: with a configuration selected, handle_query on a text that refers to
\* a merge request ('!N', 'mr N', 'merge request N', in any letter case and
\* among any words) calls the details tool for N and never the list tool,
\* also when the text holds list keywords.
C14_ReferenceGoesToDetails ==
    (/\ Ran_("handle_query")
     /\ Selected # Nothing
     /\ ReferenceIn(TheTask.text) # 0)
        => TheTask.calls =
               <<ToolUse("get_merge_request_details", "", ReferenceIn(TheTask.text))>>

\* "please LIST Merge  Request 7 and show it" was answered with the details
\* of merge request 7, fetched by two GETs
C14_Witness ==
    /\ Returned_("handle_query")
    /\ TheTask.text = ListMergeRequest7Please
    /\ TheTask.calls = <<ToolUse("get_merge_request_details", "", 7)>>
    /\ Len(TheTask.gets) = 2
    /\ TheTask.gets[1].mr_number = Some(7)
    /\ ~IsErrorText(ResultText)

\* C15: handle_query on a text without a reference and without a list
\* keyword returns None and makes no GitLab call, whatever the selection: a
\* configuration selected, none selected with one active configuration, with
\* none, or with several.
C15_NoIntentReturnsNone ==
    (/\ Returned_("handle_query")
     /\ TheTask.text \in {HelloThere, EmptyQuery})
        => /\ TheTask.result[1] = ReturnedNone
           /\ TheTask.calls = <<>>
           /\ TheTask.gets = <<>>

\* C16: with no configuration selected, two or more active configurations
\* and no id supplied or remembered, handle_query returns the list of the
\* user's configurations, selects nothing, leaves the selected configuration
\* of the tools as it was and makes no GitLab call.
C16_SeveralActivePrompts ==
    (/\ Returned_("handle_query")
     /\ TheTask.before.selected_config = Nothing
     /\ ActiveCount >= 2
     /\ ~Truthy(TheTask.config_id))
        => /\ TheTask.result[1].raised = ""
           /\ TheTask.result[1].value # Nothing
           /\ Len(ResultText) = Len(TheAgent.gitlab_configs) + 2
           /\ ResultText[1].kind = "select_configuration_first"
           /\ \A i \in DOMAIN TheAgent.gitlab_configs :
                 /\ ResultText[i + 1].kind = "config"
                 /\ ResultText[i + 1].arg.id = TheAgent.gitlab_configs[i].id
           /\ Selected = Nothing
           /\ current_gitlab_config = TheTask.before.slot
           /\ TheTask.calls = <<>>
           /\ TheTask.gets = <<>>

\* a request to list merge requests, with two active configurations and
\* nothing remembered, was answered with the list of the two
C16_Witness ==
    /\ Returned_("handle_query")
    /\ TheTask.text = ListAllMergeRequests
    /\ TheTask.config_id = None
    /\ ActiveCount = 2
    /\ Selected = Nothing
    /\ Len(ResultText) = 4
    /\ ResultText[3].kind = "config"
    /\ ResultText[3].arg.id = 2

\* C19: the selected configuration is always one of the agent's
\* configurations, of the agent's user; a selection is never dropped; the
\* selection changes only to the configuration a supplied id resolves to
\* (process_with_config), to the one a remembered id resolves to or to the
\* only active one (handle_query with nothing selected); an id that does not
\* resolve changes nothing by itself.
C19_SelectionMoves ==
    [][LET before == agents[1].selected_config
           after == agents'[1].selected_config
           task == tasks'[1]
       IN  /\ after # Nothing =>
                 /\ \E i \in DOMAIN TheAgent.gitlab_configs :
                       TheAgent.gitlab_configs[i] = after[1]
                 /\ after[1].user_id = TheAgent.user_id
           /\ before # Nothing => after # Nothing
           /\ after # before =>
                 /\ tasks[1].pc = "idle"
                 /\ \/ /\ task.op = "process_with_config"
                       /\ Resolves(task.config_id)
                       /\ after = Some(Resolved(task.config_id))
                    \/ /\ task.op = "handle_query"
                       /\ before = Nothing
                       /\ Truthy(task.config_id)
                       /\ Resolves(task.config_id)
                       /\ after = Some(Resolved(task.config_id))
                    \/ /\ task.op = "handle_query"
                       /\ before = Nothing
                       /\ ~(Truthy(task.config_id) /\ Resolves(task.config_id))
                       /\ ActiveCount = 1
                       /\ after[1].is_active
           /\ (/\ tasks[1].pc = "idle"
               /\ task.op = "process_with_config"
               /\ ~Resolves(task.config_id)) => after = before
      ]_vars

\* a remembered id selected the second of two active configurations, and a
\* list was fetched with it
C19_Witness ==
    /\ Returned_("handle_query")
    /\ TheTask.before.selected_config = Nothing
    /\ TheTask.config_id = str(2)
    /\ ActiveCount = 2
    /\ Selected # Nothing
    /\ Selected[1].id = 2
    /\ TheTask.gets # <<>>

----------------------------------------------------------------------------
(* Two conversations: SpecConcurrent runs the coroutines of two agents, of   *)
(* two users, on one event loop; a coroutine runs from one await of          *)
(* client.get to the next, and the other may run in between                  *)

\* the agents of two users, each with one active configuration of its own
ConcurrentAgents ==
    <<GitLabAgent("u1", <<StoredConfig(1, "u1", <<"https://", "a">>, <<"42">>, TRUE)>>),
      GitLabAgent("u2", <<StoredConfig(2, "u2", <<"https://", "b">>, <<"7">>, TRUE)>>)>>

\* the texts the two conversations send
ConcurrentQueries == {ListAllMergeRequests, ShowMR12}

InitConcurrent ==
    /\ ENCRYPTION_KEY = TokenKey
    /\ generated = 0
    /\ gitlab_configs = {}
    /\ next_id = 0
    /\ request = NoRequest
    /\ response = NoReply
    /\ validation_result = Nothing
    /\ stored_token = Nothing
    /\ decrypted = Nothing
    /\ checked = Nothing
    /\ verdict = Nothing
    /\ current_gitlab_config = Nothing
    /\ tool = Nothing
    /\ agents = ConcurrentAgents
    /\ tasks = <<IdleTask, IdleTask>>

\* a conversation sends /show-mr or /review-mr with the id of its
\* configuration
ConcurrentCommand ==
    /\ \E c \in DOMAIN agents, command \in {ShowMrCommand, ReviewMrCommand},
          luck \in WrongKeyLuck :
        /\ tasks[c].pc = "idle"
        /\ Ran(c, process_with_config(agents[c], current_gitlab_config, command,
                                      str(agents[c].gitlab_configs[1].id),
                                      ENCRYPTION_KEY, NextDraw, luck))
    /\ AgentIdle

\* a conversation sends a text about merge requests
ConcurrentQuery ==
    /\ \E c \in DOMAIN agents, query \in ConcurrentQueries, luck \in WrongKeyLuck :
        /\ tasks[c].pc = "idle"
        /\ Ran(c, handle_query(agents[c], current_gitlab_config, query, None,
                               ENCRYPTION_KEY, NextDraw, luck))
    /\ AgentIdle

NextConcurrent == ConcurrentCommand \/ ConcurrentQuery \/ Answered \/ Returns

SpecConcurrent == InitConcurrent /\ [][NextConcurrent]_vars

\* the configuration of conversation c
Own(c) == agents[c].gitlab_configs[1]
\* the projects a text names
ProjectsNamed(text) ==
    {text[i].arg[1] : i \in {j \in DOMAIN text : text[j].kind = "header"}}
    \cup {text[i].arg[2] :
              i \in {j \in DOMAIN text : text[j].kind = "no_merge_requests_found"}}

\* every GET of a conversation goes to the URL and project of its own
\* configuration, with its own token
ConcurrentRequestsKeepTheirOwn ==
    \A c \in DOMAIN agents :
        \A i \in DOMAIN tasks[c].gets :
            /\ tasks[c].gets[i].url = Own(c).gitlab_url
            /\ tasks[c].gets[i].project_id = Own(c).project_id
            /\ tasks[c].gets[i].token = <<"glpat", Own(c).gitlab_url[2]>>

\* C17: when the commands of two conversations, each with its own
\* configuration, interleave at the awaits of their GETs, every GET of a
\* command goes to the URL and project of its own configuration with its own
\* token, and the text the command returns names no project but its own.
C17_ConcurrentCommandsKeepTheirOwn ==
    /\ ConcurrentRequestsKeepTheirOwn
    /\ \A c \in DOMAIN agents :
          (/\ tasks[c].pc = "done"
           /\ tasks[c].result[1].raised = ""
           /\ tasks[c].result[1].value # Nothing) =>
              ProjectsNamed(ValueOf(tasks[c].result[1])) \subseteq {Own(c).project_id}

----------------------------------------------------------------------------
(* The text of get_merge_request_details, under SpecTools                   *)

PartsOf(text, kind) == SelectSeq(text, LAMBDA part : part.kind = kind)
\* the changes response holds a list of changed files
ListsChanges ==
    /\ Body(2).json = "object"
    /\ Body(2).items # <<>>
    /\ Body(2).items[1].changes # Nothing
    /\ Body(2).items[1].changes[1].json = "list"
ChangedFiles == Body(2).items[1].changes[1].items
\* the first lines of a diff, ten at most
FirstTenLines(diff) == [l \in 1..(IF Len(diff) < 10 THEN Len(diff) ELSE 10) |-> diff[l]]

\* C21: a successful get_merge_request_details whose changes response lists
\* m changed files states the count m, renders the first min(m, 5) files in
\* the order of the response, each followed by the first ten lines at most
\* of its diff, and holds the notice of m - 5 more files exactly when m > 5;
\* with m = 0 it renders no file and no notice and says that there are no
\* changes.
C21_DetailsShowFirstFiveFiles ==
    (/\ Called("get_merge_request_details")
     /\ Succeeded
     /\ ListsChanges)
        => LET m == Len(ChangedFiles)
               shown == IF m < 5 THEN m ELSE 5
               files == PartsOf(Text, "file")
               withDiff == {i \in 1..shown : ChangedFiles[i].diff # Nothing}
           IN  /\ PartsOf(Text, "files_changed") =
                      IF m > 0 THEN <<Part("files_changed", <<m>>)>> ELSE <<>>
               /\ Len(PartsOf(Text, "no_changes")) = IF m = 0 THEN 1 ELSE 0
               /\ Len(files) = shown
               /\ \A i \in 1..shown : files[i].arg = <<ChangedFiles[i].new_path>>
               /\ Len(PartsOf(Text, "diff")) = Cardinality(withDiff)
               /\ \A k \in DOMAIN Text :
                     Text[k].kind = "file" =>
                        \E i \in 1..shown :
                           /\ Text[k].arg = <<ChangedFiles[i].new_path>>
                           /\ IF i \in withDiff
                              THEN /\ Text[k + 1].kind = "diff"
                                   /\ Len(Text[k + 1].arg) <= 10
                                   /\ Text[k + 1].arg = FirstTenLines(ChangedFiles[i].diff[1])
                              ELSE Text[k + 1].kind # "diff"
               /\ PartsOf(Text, "more_files") =
                      IF m > 5 THEN <<Part("more_files", <<m - 5>>)>> ELSE <<>>

\* six changed files gave the count six, the first five files, ten of the
\* twenty lines of the fifth, and the notice of one more file
C21_Witness ==
    /\ Called("get_merge_request_details")
    /\ Succeeded
    /\ ListsChanges
    /\ Len(ChangedFiles) = 6
    /\ Len(ChangedFiles[5].diff[1]) = 20
    /\ PartsOf(Text, "files_changed") = <<Part("files_changed", <<6>>)>>
    /\ Len(PartsOf(Text, "file")) = 5
    /\ PartsOf(Text, "file")[5].arg = <<<<"file", 5>>>>
    /\ Len(PartsOf(Text, "diff")) = 4
    /\ Len(PartsOf(Text, "diff")[4].arg) = 10
    /\ PartsOf(Text, "more_files") = <<Part("more_files", <<1>>)>>

\* C22: a successful get_merge_request_details renders the placeholder in
\* place of the description when the response has no description, be the
\* field missing or null, and the description itself otherwise.
C22_PlaceholderForNoDescription ==
    (/\ Called("get_merge_request_details")
     /\ Succeeded)
        => LET description == Body(1).items[1].description
           IN  PartsOf(Text, "description") =
                   <<Part("description",
                          IF description = Nothing \/ description = Some(None)
                          THEN <<"No description provided">>
                          ELSE description[1])>>

----------------------------------------------------------------------------
(* Concurrent creates: SpecCreate runs two calls of create_gitlab_config on  *)
(* one event loop.  The handler runs to the await of client.get inside       *)
(* validate_gitlab_credentials (an URL that is not valid returns without     *)
(* awaiting), the other handler may run meanwhile, and after the answer the  *)
(* handler runs to its return without another await.                         *)

\* number of calls in flight
NumCreates == 2

\* the URLs of the calls: two that are valid and one that is not
RaceUrls == Urls \cup {<<"gitlab">>}

\* the coroutine of a call of create_gitlab_config
CreateTask(pc, current_user, config_data, reply) ==
    [pc |-> pc, current_user |-> current_user, config_data |-> config_data,
     response |-> reply]
NoCreate == CreateTask("idle", "nobody", GitLabConfigCreate(None, None, None, None), NoReply)

\* create_gitlab_config from validation_result on: the row is added and
\* committed and the response is built
create_gitlab_config_commit(c, task, net, rnd) ==
    LET config_data == task.config_data
        validation ==
            validate_gitlab_credentials(config_data.gitlab_url,
                                        config_data.access_token, net)
        encrypted_token == encrypt_token(config_data.access_token, ENCRYPTION_KEY, rnd)
        new_config ==
            NewConfig(next_id + 1, task.current_user, config_data, encrypted_token,
                      ValueOf(validation))
    IN  IF validation.raised # "" THEN
            /\ UNCHANGED <<gitlab_configs, next_id>>
            /\ tasks' = [tasks EXCEPT ![c] =
                  [task EXCEPT !.pc = "done",
                               !.response = HTTPException("create", 500,
                                                <<validation.raised>>)]]
        ELSE
            /\ gitlab_configs' = gitlab_configs \cup {new_config}
            /\ next_id' = next_id + 1
            /\ tasks' = [tasks EXCEPT ![c] =
                  [task EXCEPT !.pc = "done",
                               !.response = Reply("create", 201,
                                   {WithValidation(new_config, ValueOf(validation))})]]

InitCreate ==
    /\ ENCRYPTION_KEY \in StoreKeySettings
    /\ generated = 0
    /\ gitlab_configs = {}
    /\ next_id = 0
    /\ request = NoRequest
    /\ response = NoReply
    /\ validation_result = Nothing
    /\ stored_token = Nothing
    /\ decrypted = Nothing
    /\ checked = Nothing
    /\ verdict = Nothing
    /\ current_gitlab_config = Nothing
    /\ tool = Nothing
    /\ agents = <<>>
    /\ tasks = [c \in 1..NumCreates |-> NoCreate]

CreateIdle ==
    UNCHANGED <<ENCRYPTION_KEY, generated, request, response, validation_result,
                stored_token, decrypted, checked, verdict, current_gitlab_config, tool,
                agents>>

\* a call arrives and its handler runs the duplicate check: it raises, or
\* it reaches the await of the validation
CreateChecks ==
    /\ \E c \in DOMAIN tasks, current_user \in Users, gitlab_url \in RaceUrls :
        LET config_data == GitLabConfigCreate(None, gitlab_url, <<"glpat">>, None)
            existing_config == OwnedByUrl(gitlab_configs, current_user, gitlab_url)
            task == CreateTask("validating", current_user, config_data, NoReply)
        IN  /\ tasks[c].pc = "idle"
            /\ HttpUrlValid(rstrip(gitlab_url, "/")) \/ existing_config # {}
            /\ tasks' = [tasks EXCEPT ![c] =
                  IF existing_config # {}
                  THEN [task EXCEPT
                           !.pc = "done",
                           !.response = HTTPException("create", 400,
                               <<"GitLab configuration for this URL already exists">>)]
                  ELSE task]
    /\ UNCHANGED <<gitlab_configs, next_id>>
    /\ CreateIdle

\* a call with an URL that is not valid arrives: validate_gitlab_credentials
\* returns without awaiting, and the handler runs to its return
CreateWithoutRequest ==
    /\ \E c \in DOMAIN tasks, current_user \in Users, gitlab_url \in RaceUrls :
        LET config_data == GitLabConfigCreate(None, gitlab_url, <<"glpat">>, None)
        IN  /\ tasks[c].pc = "idle"
            /\ ~HttpUrlValid(rstrip(gitlab_url, "/"))
            /\ OwnedByUrl(gitlab_configs, current_user, gitlab_url) = {}
            /\ create_gitlab_config_commit(c,
                   CreateTask("validating", current_user, config_data, NoReply),
                   Failure("RuntimeError"), NextDraw)
    /\ CreateIdle

\* the GET of the validation is answered and the handler runs to its return
CreateCommits ==
    /\ \E c \in DOMAIN tasks, net \in StoreNetworks :
        /\ tasks[c].pc = "validating"
        /\ create_gitlab_config_commit(c, tasks[c], net, NextDraw)
    /\ CreateIdle

NextCreate == CreateChecks \/ CreateWithoutRequest \/ CreateCommits

SpecCreate == InitCreate /\ [][NextCreate]_vars

\* C23: of two calls of create_gitlab_config of one user for one gitlab_url
\* that run concurrently, one stores its row and the other gets the
\* conflict: they never both answer 201, and the table never holds two rows
\* of that user with that URL.
C23_ConcurrentCreatesKeepOne ==
    \A c \in DOMAIN tasks, d \in DOMAIN tasks :
        (/\ c # d
         /\ tasks[c].pc = "done"
         /\ tasks[d].pc = "done"
         /\ tasks[c].current_user = tasks[d].current_user
         /\ tasks[c].config_data.gitlab_url = tasks[d].config_data.gitlab_url)
            => /\ {tasks[c].response.status, tasks[d].response.status} = {201, 400}
               /\ Cardinality(OwnedByUrl(gitlab_configs, tasks[c].current_user,
                                         tasks[c].config_data.gitlab_url)) = 1

\* the same when the second call arrives after the first has returned
SequentialCreatesKeepOne ==
    [][\A c \in DOMAIN tasks, d \in DOMAIN tasks :
          (/\ tasks[c].pc = "done"
           /\ tasks[c].response.status = 201
           /\ tasks[d].pc = "idle"
           /\ tasks'[d].pc # "idle"
           /\ tasks'[d].current_user = tasks[c].current_user
           /\ tasks'[d].config_data.gitlab_url = tasks[c].config_data.gitlab_url)
             => /\ tasks'[d].pc = "done"
                /\ tasks'[d].response.status = 400
                /\ gitlab_configs' = gitlab_configs]_vars

====
